---- MODULE Spec2Model ----
(***************************************************************************)
(* Score aggregation and decision-rule engine of the MER call audit tool:  *)
(* compute_ui_summary / compute_qc_score (app.py) and summarize_record     *)
(* (decision_builder.py), applied to the JSON reports of one record.       *)
(*                                                                         *)
(* Python strings are sequences of one-character strings, so that strip(), *)
(* lower(), startswith() and the `in` substring test are computed.         *)
(* Percentages with two decimals are integers in hundredths of a percent.  *)
(***************************************************************************)
EXTENDS Integers, Sequences, FiniteSets, TLC

VARIABLES
    qa, qc2, duration_sec,       \* the reports and the media duration of a record
    issues, summary, qc_score,   \* the results last computed from them
    raised,                      \* the engine functions that raised an exception
    total_seconds,               \* a time offset, in tenths of a second
    timestamp,                   \* a timestamp as a segment carries it
    parsed,                      \* its offset in seconds, once parsed
    transcripts,                 \* the transcripts of the calls of a record
    call_durations,              \* their durations, in tenths of a second
    merged,                      \* the merged transcript, once built
    transcript,                  \* the transcript shown for a call
    total_duration,              \* its media duration, in tenths of a second, or None
    distribution,                \* its speaker distribution, once computed
    chunk_fate,                  \* what the oracle does with each chunk of a call
    chunk_state,                 \* where _transcribe_one is, for each chunk
    chunk_result,                \* what _transcribe_one returned, for each chunk
    collect_index,               \* the chunk transcribe_in_parallel waits for
    results,                     \* the results it has collected
    pool_returned,               \* the list it returned, once returned
    media_files,                 \* the calls of a record: duration, oracle response
    call_index,                  \* the call process_multi_call_record is at
    in_flight,                   \* the calls whose oracle call is running
    record_transcripts,          \* its list transcripts
    record_durations,            \* its list call_durations
    merged_transcript,           \* its merged transcript, once merged
    files,                       \* the names of the files of the records directory
    records,                     \* the records scan_records found there, once scanned
    source,                      \* the content of the MER and media files of each record
    staged,                      \* the content of their copies in the record directory
    processed_dir,               \* whether the _processed directory of each record exists
    artifacts,                   \* the derived artifacts of each record, once written
    oracle_calls,                \* how often the oracle was called for each record
    final_decision,              \* final_decision.json of each record, once written
    jobs,                        \* how many process_record threads are at each place
    started,                     \* how many threads have been started
    last_response                \* the last response of an endpoint

engine_vars == <<qa, qc2, duration_sec, issues, summary, qc_score, raised>>

clock_vars == <<total_seconds, timestamp, parsed>>

merge_vars == <<transcripts, call_durations, merged>>

speaker_vars == <<transcript, total_duration, distribution>>

pool_vars ==
    <<chunk_fate, chunk_state, chunk_result, collect_index, results, pool_returned>>

record_vars ==
    <<media_files, call_index, in_flight, record_transcripts, record_durations,
      merged_transcript>>

scan_vars == <<files, records>>

service_vars ==
    <<source, staged, processed_dir, artifacts, oracle_calls, final_decision, jobs,
      started, last_response>>

vars == <<engine_vars, clock_vars, merge_vars, speaker_vars, pool_vars, record_vars, scan_vars, service_vars>>

(***************************************************************************)
(* Bounds of the explored inputs.                                          *)
(***************************************************************************)
MaxItems == 8      \* longest QA matrix of plain Incorrect / Correct items
MaxRich == 2       \* longest QA matrix over the varied item kinds
MaxList == 2       \* longest examples / timestamps list of a behavioral flag
MaxWpm == 205      \* highest whole rate of speech (words per minute) tried
MaxSeconds == 1200 \* longest offset (whole seconds) formatted and parsed back
MaxCalls == 3      \* most calls of a record
MaxSegs == 2       \* most segments of a transcript
MaxChunks == 3     \* most chunks of a call
MaxFiles == 5      \* most files in the records directory
MaxJobs == 2       \* most process_record threads started

(***************************************************************************)
(* Python values: a tag t and a payload v.                                 *)
(***************************************************************************)
PyNone == [t |-> "none", v |-> <<>>]
PyTrue == [t |-> "true", v |-> <<>>]
PyFalse == [t |-> "false", v |-> <<>>]
PyStr(s) == [t |-> "str", v |-> s]
PyList(n) == [t |-> "list", v |-> [i \in 1..n |-> "x"]]
PyDict(value) == [t |-> "dict", v |-> value]

IsStr(x) == x.t = "str"
IsBool(x) == x.t \in {"true", "false"}
IsList(x) == x.t = "list"
IsDict(x) == x.t = "dict"

(***************************************************************************)
(* str methods.                                                            *)
(***************************************************************************)
UpperChars == <<"A","B","C","D","E","F","G","H","I","J","K","L","M",
                "N","O","P","Q","R","S","T","U","V","W","X","Y","Z">>
LowerChars == <<"a","b","c","d","e","f","g","h","i","j","k","l","m",
                "n","o","p","q","r","s","t","u","v","w","x","y","z">>

\* the lowercase of every uppercase letter
LowerOf ==
    [c \in {UpperChars[i] : i \in 1..Len(UpperChars)} |->
        LowerChars[CHOOSE i \in 1..Len(UpperChars) : UpperChars[i] = c]]

LowerChar(c) == IF c \in DOMAIN LowerOf THEN LowerOf[c] ELSE c

lower(s) == [i \in 1..Len(s) |-> LowerChar(s[i])]

IsSpace(c) == c \in {" ", "\t", "\n"}

RECURSIVE lstrip(_)
lstrip(s) == IF s # <<>> /\ IsSpace(Head(s)) THEN lstrip(Tail(s)) ELSE s

RECURSIVE rstrip(_)
rstrip(s) ==
    IF s # <<>> /\ IsSpace(s[Len(s)]) THEN rstrip(SubSeq(s, 1, Len(s) - 1)) ELSE s

strip(s) == rstrip(lstrip(s))

startswith(s, prefix) ==
    Len(s) >= Len(prefix) /\ SubSeq(s, 1, Len(prefix)) = prefix

\* Python's `sub in s`
contains(s, sub) ==
    \E i \in 0..(Len(s) - Len(sub)) : SubSeq(s, i + 1, i + Len(sub)) = sub

\* str(x) of a value read from JSON
str(x) ==
    CASE x.t = "str" -> x.v
      [] x.t = "none" -> <<"N","o","n","e">>
      [] x.t = "true" -> <<"T","r","u","e">>
      [] x.t = "false" -> <<"F","a","l","s","e">>
      [] OTHER -> <<"?">>

\* (x or '') for a value that is a string or None
or_empty(x) == IF IsStr(x) THEN x.v ELSE <<>>

(***************************************************************************)
(* String literals of the source.                                          *)
(***************************************************************************)
k_incorrect == <<"i","n","c","o","r","r","e","c","t">>
k_missing == <<"m","i","s","s","i","n","g">>
k_clubbed == <<"c","l","u","b","b","e","d">>
k_paraphrased == <<"p","a","r","a","p","h","r","a","s","e","d">>
k_correct == <<"c","o","r","r","e","c","t">>
k_unknown == <<"u","n","k","n","o","w","n">>
k_PPdot == <<"P","P",".">>
k_ppname == <<"p","p",".","n","a","m","e">>
k_ppdob == <<"p","p",".","d","o","b">>
k_ppid == <<"p","p",".","i","d",".">>
k_yes == <<"y","e","s">>
k_no == <<"n","o">>
k_true == <<"t","r","u","e">>
k_false == <<"f","a","l","s","e">>
k_partial == <<"p","a","r","t","i","a","l">>
k_na == <<"n","a">>
k_14 == <<"1",".","4">>
k_14dot == <<"1",".","4",".">>
k_later_revealed == <<"l","a","t","e","r"," ","r","e","v","e","a","l","e","d">>

\* the sentinels of an inapplicable expected_response
NaSentinels ==
    { <<>>, k_na, <<"n","/","a">>,
      <<"n","o","t"," ","a","p","p","l","i","c","a","b","l","e">>,
      <<"n","u","l","l">>, <<"n","o","n","e">> }

(***************************************************************************)
(* app.py: _normalize_status                                               *)
(***************************************************************************)
\* mutant: 'correct' is tested before the keywords that contain or outrank it
_normalize_status_correct_first(value) ==
    LET s == lower(strip(or_empty(value))) IN
    IF contains(s, k_correct) THEN k_correct
    ELSE IF contains(s, k_incorrect) THEN k_incorrect
    ELSE IF contains(s, k_missing) THEN k_missing
    ELSE IF contains(s, k_clubbed) THEN k_clubbed
    ELSE IF contains(s, k_paraphrased) THEN k_paraphrased
    ELSE IF s # <<>> THEN s ELSE k_unknown

_normalize_status(value) ==
    LET s == lower(strip(or_empty(value))) IN
    IF contains(s, k_incorrect) THEN k_incorrect
    ELSE IF contains(s, k_missing) THEN k_missing
    ELSE IF contains(s, k_clubbed) THEN k_clubbed
    ELSE IF contains(s, k_paraphrased) THEN k_paraphrased
    ELSE IF contains(s, k_correct) THEN k_correct
    ELSE IF s # <<>> THEN s ELSE k_unknown

\* the test of app.py line 1109 on one item
pp_excluded(item) ==
    LET qid == strip(str(item.question_id))
        expected == lower(strip(or_empty(item.expected_response)))
    IN  startswith(qid, k_PPdot) /\ expected \in NaSentinels

\* round(n / d, 0) as Python rounds: to nearest, ties to even
RoundHalfEven(n, d) ==
    LET q == n \div d
        r == n % d
    IN  IF 2 * r > d \/ (2 * r = d /\ q % 2 = 1) THEN q + 1 ELSE q

ZeroCounters ==
    [total |-> 0, asked |-> 0, missed |-> 0, incorrect |-> 0,
     paraphrased |-> 0, clubbed |-> 0, correct |-> 0]

\* mutant: the last branch is a plain else, so an unmatched status counts as correct
ui_step_else_correct(c, item) ==
    LET status == _normalize_status(item.status) IN
    IF pp_excluded(item) THEN c
    ELSE [total |-> c.total + 1,
          asked |-> IF status = k_missing THEN c.asked ELSE c.asked + 1,
          missed |-> IF status = k_missing THEN c.missed + 1 ELSE c.missed,
          incorrect |-> IF status = k_incorrect THEN c.incorrect + 1 ELSE c.incorrect,
          paraphrased |-> IF status = k_paraphrased THEN c.paraphrased + 1 ELSE c.paraphrased,
          clubbed |-> IF status = k_clubbed THEN c.clubbed + 1 ELSE c.clubbed,
          correct |-> IF status \notin {k_incorrect, k_paraphrased, k_clubbed}
                      THEN c.correct + 1 ELSE c.correct]

\* mutant: asked is incremented for every counted item, missing ones too
ui_step_asked_always(c, item) ==
    LET status == _normalize_status(item.status) IN
    IF pp_excluded(item) THEN c
    ELSE [total |-> c.total + 1,
          asked |-> c.asked + 1,
          missed |-> IF status = k_missing THEN c.missed + 1 ELSE c.missed,
          incorrect |-> IF status = k_incorrect THEN c.incorrect + 1 ELSE c.incorrect,
          paraphrased |-> IF status = k_paraphrased THEN c.paraphrased + 1 ELSE c.paraphrased,
          clubbed |-> IF status = k_clubbed THEN c.clubbed + 1 ELSE c.clubbed,
          correct |-> IF status = k_correct THEN c.correct + 1 ELSE c.correct]

\* one iteration of the loop of compute_ui_summary
ui_step(c, item) ==
    LET status == _normalize_status(item.status) IN
    IF pp_excluded(item) THEN c
    ELSE [total |-> c.total + 1,
          asked |-> IF status = k_missing THEN c.asked ELSE c.asked + 1,
          missed |-> IF status = k_missing THEN c.missed + 1 ELSE c.missed,
          incorrect |-> IF status = k_incorrect THEN c.incorrect + 1 ELSE c.incorrect,
          paraphrased |-> IF status = k_paraphrased THEN c.paraphrased + 1 ELSE c.paraphrased,
          clubbed |-> IF status = k_clubbed THEN c.clubbed + 1 ELSE c.clubbed,
          correct |-> IF status = k_correct THEN c.correct + 1 ELSE c.correct]

\* the counters after the loop over items 1..n
RECURSIVE ui_loop(_, _)
ui_loop(items, n) ==
    IF n = 0 THEN ZeroCounters ELSE ui_step(ui_loop(items, n - 1), items[n])

\* mutant: the score is truncated instead of rounded
accuracy_floor(correct, total) ==
    IF total > 0 THEN (correct * 10000) \div total ELSE 0

\* overall_compliance_score, in hundredths of a percent
accuracy(correct, total) ==
    IF total > 0 THEN RoundHalfEven(correct * 10000, total) ELSE 0

compute_ui_summary(report) ==
    LET c == ui_loop(report.qa_matrix, Len(report.qa_matrix)) IN
    [overall_compliance_score |-> accuracy(c.correct, c.total),
     total_questions |-> c.total,
     questions_asked |-> c.asked,
     questions_missed |-> c.missed,
     incorrect_responses |-> c.incorrect,
     paraphrased_responses |-> c.paraphrased,
     clubbed_questions |-> c.clubbed,
     critical_errors |-> report.critical_issues]

(***************************************************************************)
(* app.py: compute_qc_score                                                *)
(***************************************************************************)
PyNum(n) == [t |-> "num", v |-> <<n>>]
PyAbsent == [t |-> "absent", v |-> <<>>]
IsNum(x) == x.t = "num"

\* bool(x) of a JSON value
truthy(x) ==
    CASE x.t \in {"none", "false", "absent"} -> FALSE
      [] x.t = "str" -> x.v # <<>>
      [] x.t = "list" -> Len(x.v) > 0
      [] x.t = "num" -> x.v[1] # 0
      [] OTHER -> TRUE

\* the decimal digits and their values
DigitOf ==
    ("0" :> 0) @@ ("1" :> 1) @@ ("2" :> 2) @@ ("3" :> 3) @@ ("4" :> 4) @@
    ("5" :> 5) @@ ("6" :> 6) @@ ("7" :> 7) @@ ("8" :> 8) @@ ("9" :> 9)

IsDigits(s) == \A i \in 1..Len(s) : s[i] \in DOMAIN DigitOf

RECURSIVE digits_value(_)
digits_value(s) ==
    IF s = <<>> THEN 0
    ELSE digits_value(SubSeq(s, 1, Len(s) - 1)) * 10 + DigitOf[s[Len(s)]]

\* the text without a leading sign, and the sign
unsigned(s) == IF s # <<>> /\ Head(s) \in {"+", "-"} THEN Tail(s) ELSE s
sign_of(s) == IF s # <<>> /\ Head(s) = "-" THEN -1 ELSE 1

\* int(s) of a string: <<n>>, or <<>> when int() raises ValueError
signed_value(body, sign) ==
    IF body # <<>> /\ IsDigits(body) THEN <<sign * digits_value(body)>> ELSE <<>>

int_of_stripped(text) == signed_value(unsigned(text), sign_of(text))

int_of(s) == int_of_stripped(strip(s))

\* float(x), in tenths: <<n>>, or <<>> when float() raises. A string is
\* decimal digits with at most one point (one fractional digit is kept, the
\* inputs carry no more); True and False are the numbers 1 and 0.
float_of(x) ==
    CASE IsNum(x) -> <<x.v[1]>>
      [] x.t = "true" -> <<10>>
      [] x.t = "false" -> <<0>>
      [] IsStr(x) ->
            LET body == unsigned(strip(x.v))
                dots == {i \in 1..Len(body) : body[i] = "."}
                p == IF dots = {} THEN Len(body) + 1 ELSE CHOOSE i \in dots : TRUE
                ip == SubSeq(body, 1, p - 1)
                fp == SubSeq(body, p + 1, Len(body))
            IN  IF Cardinality(dots) <= 1 /\ IsDigits(ip) /\ IsDigits(fp)
                   /\ (ip # <<>> \/ fp # <<>>) /\ Len(fp) <= 1
                THEN <<sign_of(strip(x.v))
                       * (digits_value(ip) * 10 + digits_value(fp))>>
                ELSE <<>>
      [] OTHER -> <<>>

QcDims ==
    <<"greetings", "call_opening", "language_preference", "id_validation",
      "disclaimer", "politeness", "empathy", "communication_skills",
      "probing", "observations", "call_closure">>

QcDimSet == {QcDims[i] : i \in 1..Len(QcDims)}

ScoreDims ==
    QcDimSet \cup {"complete_mer_questions", "correct_documentation",
                   "call_duration", "rate_of_speech", "visual_presentation"}

\* qc.get(dim, {}).get('value')
qc_value(qc, dim) == IF IsDict(qc[dim]) THEN qc[dim].v ELSE PyNone

\* p is a percentage in hundredths of a percent
pct_to_score(p) ==
    IF p >= 10000 THEN 100
    ELSE IF p >= 9500 THEN 80
    ELSE IF p >= 8500 THEN 60
    ELSE IF p >= 7000 THEN 40
    ELSE 20

graded(val) ==
    LET v == lower(strip(or_empty(val))) IN
    IF v = k_yes THEN 100 ELSE IF v = k_partial THEN 50 ELSE 0

\* mutant: the answer is compared as written, without strip().lower()
binary_exact(val) == IF or_empty(val) = k_yes THEN 100 ELSE 0

binary(val) == IF lower(strip(or_empty(val))) = k_yes THEN 100 ELSE 0

contextual(val) ==
    LET v == lower(strip(or_empty(val))) IN
    IF v \in {k_yes, k_na} THEN 100 ELSE 0

\* mutant: an unknown duration scores nothing
duration_score_unknown_zero(d) ==
    IF ~IsNum(d) THEN 0
    ELSE IF d.v[1] >= 600 THEN 100 ELSE IF d.v[1] >= 420 THEN 70 ELSE 30

\* duration_sec is a number of seconds or None
duration_score(d) ==
    LET sec == IF IsNum(d) THEN d.v[1] ELSE 0 IN
    IF sec >= 600 THEN 100 ELSE IF sec >= 420 THEN 70 ELSE 30

\* mutant: the ideal band starts above 120 words per minute
ros_score_open_floor(wpm) ==
    IF ~IsNum(wpm) THEN 50
    ELSE LET w == wpm.v[1] IN
         IF w = 0 THEN 50
         ELSE IF 12000 < w /\ w <= 16000 THEN 100
         ELSE IF (10000 <= w /\ w <= 11900) \/ (16100 <= w /\ w <= 18000) THEN 70
         ELSE IF (8000 <= w /\ w <= 9900) \/ (18100 <= w /\ w <= 20000) THEN 30
         ELSE 0

\* wpm is None or a number in hundredths of a word per minute
ros_score(wpm) ==
    IF ~IsNum(wpm) THEN 50
    ELSE LET w == wpm.v[1] IN
         IF w = 0 THEN 50
         ELSE IF 12000 <= w /\ w <= 16000 THEN 100
         ELSE IF (10000 <= w /\ w <= 11900) \/ (16100 <= w /\ w <= 18000) THEN 70
         ELSE IF (8000 <= w /\ w <= 9900) \/ (18100 <= w /\ w <= 20000) THEN 30
         ELSE 0

\* compute_wpm.safe_wpm (and wpm of medb.py): words per minute, in hundredths,
\* of a number of words spoken in a number of whole seconds
safe_wpm(words, seconds) ==
    IF seconds > 0 THEN RoundHalfEven(words * 6000, seconds) ELSE 0

RECURSIVE SumOver(_, _)
SumOver(f, S) ==
    IF S = {} THEN 0
    ELSE LET x == CHOOSE y \in S : TRUE IN f[x] + SumOver(f, S \ {x})

\* mutant: the floors of the bands are exclusive
category_of_strict(total) ==
    IF total > 1500 THEN "Good"
    ELSE IF total > 1400 THEN "Above Average"
    ELSE IF total > 1300 THEN "Average"
    ELSE "Poor"

category_of(total) ==
    IF total >= 1500 THEN "Good"
    ELSE IF total >= 1400 THEN "Above Average"
    ELSE IF total >= 1300 THEN "Average"
    ELSE "Poor"

\* complete_mer_pct, in hundredths of a percent (floor; the bands of
\* pct_to_score are whole percents, so flooring changes no comparison)
complete_mer_pct(s) ==
    IF s.total_questions # 0
    THEN (s.questions_asked * 10000) \div s.total_questions
    ELSE 0

qc_breakdown(qa_report, qc, dur) ==
    LET s == compute_ui_summary(qa_report) IN
    [d \in ScoreDims |->
        CASE d \in {"greetings", "language_preference", "id_validation", "disclaimer"}
               -> binary(qc_value(qc, d))
          [] d \in {"call_opening", "politeness", "communication_skills", "call_closure"}
               -> graded(qc_value(qc, d))
          [] d \in {"empathy", "probing", "observations"}
               -> contextual(qc_value(qc, d))
          [] d = "complete_mer_questions" -> pct_to_score(complete_mer_pct(s))
          [] d = "correct_documentation" -> pct_to_score(s.overall_compliance_score)
          [] d = "call_duration" -> duration_score(dur)
          [] d = "rate_of_speech" -> ros_score(qa_report.meta.doctor_wpm)
          [] d = "visual_presentation" -> 100]

max_total == 1600

compute_qc_score(qa_report, qc2_report, dur) ==
    LET scores == qc_breakdown(qa_report, qc2_report.qc_parameters, dur)
        total == SumOver(scores, ScoreDims)
    IN  [total_score |-> total,
         max_score |-> max_total,
         percentage |-> RoundHalfEven(total * 10000, max_total),
         category |-> category_of(total),
         breakdown |-> scores]

(***************************************************************************)
(* decision_builder.py: to_bool, get_str, summarize_record                 *)
(***************************************************************************)
k_missing_apron == <<"m","i","s","s","i","n","g","_","a","p","r","o","n">>
k_not_wearing_apron == <<"n","o","t","_","w","e","a","r","i","n","g","_","a","p","r","o","n">>
k_poor == <<"p","o","o","r">>
k_inaudible == <<"i","n","a","u","d","i","b","l","e">>
k_not_audible == <<"n","o","t","_","a","u","d","i","b","l","e">>
k_both_visible == <<"b","o","t","h","_","v","i","s","i","b","l","e">>

\* "T", "F" or "N" for True, False, None
to_bool(val) ==
    IF IsBool(val) THEN (IF val.t = "true" THEN "T" ELSE "F")
    ELSE IF IsStr(val)
         THEN LET v == lower(strip(val.v)) IN
              IF v \in {k_yes, k_true} THEN "T"
              ELSE IF v \in {k_no, k_false} THEN "F"
              ELSE "N"
         ELSE "N"

\* get_str(qc_params, dim, 'value'): the value when it is a string, else None
get_str(qc, dim) ==
    IF IsDict(qc[dim]) /\ IsStr(qc[dim].v) THEN qc[dim].v ELSE PyNone

\* str(it.get('status','')).lower()
status_lower(it) == lower(str(it.status))

is_incorrect(it) == status_lower(it) = k_incorrect
is_missing(it) == status_lower(it) = k_missing
is_clubbed(it) == status_lower(it) = k_clubbed

incorrect_items(qa_matrix) == SelectSeq(qa_matrix, is_incorrect)
missing_items(qa_matrix) == SelectSeq(qa_matrix, is_missing)
clubbed_count(qa_matrix) == Len(SelectSeq(qa_matrix, is_clubbed))
typo_items(qa_matrix) == SelectSeq(qa_matrix, LAMBDA it : it.has_typo)

id_missing(qa_matrix) ==
    SelectSeq(qa_matrix,
              LAMBDA it : startswith(lower(str(it.question_id)), k_ppid) /\ is_missing(it))

\* some item with the given question id (stripped, lowercased) is Incorrect
incorrect_with_id(qa_matrix, ids) ==
    \E i \in 1..Len(qa_matrix) :
        /\ lower(strip(str(qa_matrix[i].question_id))) \in ids
        /\ is_incorrect(qa_matrix[i])

contra_items(qa_matrix) ==
    SelectSeq(qa_matrix,
              LAMBDA it : contains(lower(or_empty(it.captured_response)), k_later_revealed))

Issue(title, detail) == [issue |-> title, details |-> detail]

\* one rule: the issue when the rule fires, nothing otherwise
Rule(fires, title, detail) == IF fires THEN <<Issue(title, detail)>> ELSE <<>>

\* (x or []) is a list of at least two entries
two_or_more(x) == IsList(x) /\ Len(x.v) >= 2

\* mutant: both lists must hold two entries
major_prompting_both(pr) ==
    to_bool(pr.value) = "T" /\ (two_or_more(pr.examples) /\ two_or_more(pr.timestamps))

major_prompting(pr) ==
    to_bool(pr.value) = "T" /\ (two_or_more(pr.examples) \/ two_or_more(pr.timestamps))

\* the thresholds on the number of Incorrect items
many_incorrect(n) == n >= 8

\* mutant: the upper end of the band overlaps the ASSIGNBACK threshold
some_incorrect_overlap(n) == 4 <= n /\ n <= 8

some_incorrect(n) == 4 <= n /\ n <= 7

\* len(x or []), the size recorded in an issue's details
list_len(x) == IF IsList(x) THEN Len(x.v) ELSE 0

\* int(x or 0) / float(x) of a number or None
num_or(x, default) == IF IsNum(x) THEN x.v[1] ELSE default

assignback_issues(q, qc_params) ==
    LET m == q.qa_matrix
        pr == q.behavioral_flags.prompting_detected
        attire == lower(strip(or_empty(q.video_analysis.attire_check)))
    IN  Rule(missing_items(m) # <<>>, "Questions missing", Len(missing_items(m)))
        \o Rule(incorrect_with_id(m, {k_ppname}), "Customer name incorrect (PP.Name)", 0)
        \o Rule(id_missing(m) # <<>>, "Missing ID proof verification", Len(id_missing(m)))
        \o Rule(clubbed_count(m) >= 2, "2+ clubbed questions", clubbed_count(m))
        \o Rule(many_incorrect(Len(incorrect_items(m))), "Many incorrect documentation entries",
                Len(incorrect_items(m)))
        \o Rule(to_bool(get_str(qc_params, "disclaimer")) = "F", "Disclaimer missing", 0)
        \o Rule(lower(strip(str(qc_value(qc_params, "call_opening")))) = k_no,
                "Doctor self-introduction missing", 0)
        \o Rule(major_prompting(pr), "Major agent-led prompting detected",
                list_len(pr.examples))
        \o Rule(attire \in {k_no, k_missing_apron, k_not_wearing_apron},
                "Doctor not wearing apron", 0)

ops_attention_issues(q) ==
    LET m == q.qa_matrix
        spelling == num_or(q.documentation_quality.spelling_errors_count, 0)
    IN  Rule(Len(typo_items(m)) >= 3, "Multiple typos in MER entries", Len(typo_items(m)))
        \o Rule(spelling >= 3, "3+ spelling errors in MER", spelling)
        \o Rule(incorrect_with_id(m, {k_ppdob}), "Incorrect date of birth", 0)
        \o Rule(some_incorrect(Len(incorrect_items(m))),
                "4-7 incorrect documentation entries", Len(incorrect_items(m)))
        \o Rule(incorrect_with_id(m, {k_14, k_14dot}), "Incorrect occupation (1.4)", 0)

\* float(dataval.get(key)) if it is not None else None, inside try/except:
\* <<tenths>> or <<>>
measure(x) == IF x = PyNone \/ x = PyAbsent THEN <<>> ELSE float_of(x)

\* mutant: the bounds 130 and 210 are themselves out of range
height_out_of_range_inclusive(h) == h # <<>> /\ (h[1] <= 1300 \/ h[1] >= 2100)

height_out_of_range(h) == h # <<>> /\ (h[1] < 1300 \/ h[1] > 2100)

weight_out_of_range(w) == w # <<>> /\ (w[1] < 350 \/ w[1] > 1500)

flags_issues(q, qc_params, assignback) ==
    LET m == q.qa_matrix
        pr == q.behavioral_flags.prompting_detected
        ch == q.behavioral_flags.customer_hesitation
        h == measure(q.data_validation.height_cm)
        w == measure(q.data_validation.weight_kg)
        pol == lower(strip(or_empty(get_str(qc_params, "politeness"))))
    IN  Rule(to_bool(pr.value) = "T"
                 /\ ~\E i \in 1..Len(assignback) :
                        assignback[i].issue = "Major agent-led prompting detected",
             "Minor prompting detected", list_len(pr.examples))
        \o Rule(to_bool(ch.value) = "T", "Customer hesitation detected", list_len(ch.examples))
        \o Rule(height_out_of_range(h), "Height out of range", h)
        \o Rule(weight_out_of_range(w), "Weight out of range", w)
        \o Rule(contra_items(m) # <<>>, "Contradictory responses", Len(contra_items(m)))
        \o Rule(to_bool(q.video_analysis.privacy_maintained) = "F",
                "Privacy breach in video", 0)
        \o Rule(pol \in {k_no, k_partial}, "Unprofessional behavior (politeness)", 0)

tech_issues(q) ==
    LET aud == lower(strip(or_empty(q.technical_status.audibility_level)))
        vis == lower(strip(or_empty(q.video_analysis.visibility_status)))
    IN  Rule(q.technical_status.recording_exists.t = "false", "Recording file missing", 0)
        \o Rule(aud \in {k_poor, k_inaudible, k_not_audible}, "Voice not audible", 0)
        \o Rule(vis # <<>> /\ vis # k_both_visible, "Not both participants visible", 0)

summarize_record(q, qc2_report) ==
    LET qc_params == qc2_report.qc_parameters
        assignback == assignback_issues(q, qc_params)
    IN  [ASSIGNBACK |-> assignback,
         OPS_ATTENTION |-> ops_attention_issues(q),
         FLAGS |-> flags_issues(q, qc_params, assignback),
         TECH_ISSUES |-> tech_issues(q)]

(***************************************************************************)
(* app.py: parse_mmss_to_seconds, seconds_to_mmss                          *)
(* medb.py: parse_timestamp_to_seconds, seconds_to_timestamp               *)
(* Offsets given to the formatters are in tenths of a second; parsed       *)
(* offsets are whole seconds.                                              *)
(***************************************************************************)
DigitChars == <<"0", "1", "2", "3", "4", "5", "6", "7", "8", "9">>

\* str(n) of an integer
RECURSIVE digits_of(_)
digits_of(n) ==
    IF n < 0 THEN <<"-">> \o digits_of(-n)
    ELSE IF n < 10 THEN <<DigitChars[n + 1]>>
    ELSE digits_of(n \div 10) \o <<DigitChars[(n % 10) + 1]>>

\* f"{r:02d}"
pad2(r) == IF 0 <= r /\ r < 10 THEN <<"0">> \o digits_of(r) ELSE digits_of(r)

\* f"{m}:{r:02d}" with m = s // 60, r = s % 60
mmss(s) == digits_of(s \div 60) \o <<":">> \o pad2(s % 60)

\* mutant: the seconds are written unpadded
seconds_to_mmss_unpadded(t) ==
    LET s == RoundHalfEven(t, 10) IN digits_of(s \div 60) \o <<":">> \o digits_of(s % 60)

\* app.py: s = int(round(total_seconds))
seconds_to_mmss(t) == mmss(RoundHalfEven(t, 10))

\* medb.py: s = int(seconds), truncating towards zero
seconds_to_timestamp(t) == mmss(IF t >= 0 THEN t \div 10 ELSE -((-t) \div 10))

\* ts.split(':')
RECURSIVE split_colon(_)
split_colon(s) ==
    LET colons == {i \in 1..Len(s) : s[i] = ":"} IN
    IF colons = {} THEN <<s>>
    ELSE LET p == CHOOSE i \in colons : \A j \in colons : i <= j
         IN  <<SubSeq(s, 1, p - 1)>> \o split_colon(SubSeq(s, p + 1, Len(s)))

\* minutes * 60 + seconds of a timestamp of two integer fields: <<n>>, else <<>>
minutes_seconds(m, s) ==
    IF m = <<>> \/ s = <<>> THEN <<>> ELSE <<m[1] * 60 + s[1]>>

fields_value(parts) ==
    IF Len(parts) # 2 THEN <<>>
    ELSE minutes_seconds(int_of(parts[1]), int_of(parts[2]))

two_fields(ts) == IF ~IsStr(ts) THEN <<>> ELSE fields_value(split_colon(ts.v))

\* app.py: None when the timestamp is not two integer fields
none_or(fields) == IF fields = <<>> THEN PyNone ELSE PyNum(fields[1])

parse_mmss_to_seconds(ts) == none_or(two_fields(ts))

\* medb.py: 0.0 when the timestamp is not two integer fields
zero_or(fields) == IF fields = <<>> THEN PyNum(0) ELSE PyNum(fields[1])

parse_timestamp_to_seconds(ts) == zero_or(two_fields(ts))

(***************************************************************************)
(* medb.py: merge_transcripts                                              *)
(***************************************************************************)
k_call == <<"c","a","l","l">>
k_000 == <<"0",":","0","0">>

\* segment.get(key, default)
get_or(x, default) == IF x = PyAbsent THEN default ELSE x

\* mutant: the call index is the 0-based position of enumerate()
merged_segment_zero_based(segment, i, offset) ==
    LET start_sec == parse_timestamp_to_seconds(
                         get_or(segment.start_timestamp, PyStr(k_000))).v[1]
        end_sec == parse_timestamp_to_seconds(
                       get_or(segment.end_timestamp, PyStr(k_000))).v[1]
    IN  [segment_id |-> PyStr(k_call \o digits_of(i - 1) \o <<"_">>
                               \o str(get_or(segment.segment_id, PyStr(<<>>)))),
         speaker |-> segment.speaker,
         start_timestamp |-> PyStr(seconds_to_timestamp(start_sec * 10 + offset)),
         end_timestamp |-> PyStr(seconds_to_timestamp(end_sec * 10 + offset)),
         call_index |-> i - 1]

\* the segment of call i (1-indexed), shifted by offset (tenths of a second)
merged_segment(segment, i, offset) ==
    LET start_sec == parse_timestamp_to_seconds(
                         get_or(segment.start_timestamp, PyStr(k_000))).v[1]
        end_sec == parse_timestamp_to_seconds(
                       get_or(segment.end_timestamp, PyStr(k_000))).v[1]
    IN  [segment_id |-> PyStr(k_call \o digits_of(i) \o <<"_">>
                               \o str(get_or(segment.segment_id, PyStr(<<>>)))),
         speaker |-> segment.speaker,
         start_timestamp |-> PyStr(seconds_to_timestamp(start_sec * 10 + offset)),
         end_timestamp |-> PyStr(seconds_to_timestamp(end_sec * 10 + offset)),
         call_index |-> i]

\* the loop over zip(transcripts, call_durations) from call i on
RECURSIVE merge_from(_, _, _, _)
merge_from(ts, ds, i, offset) ==
    IF i > Len(ts) \/ i > Len(ds) THEN <<>>
    ELSE [k \in 1..Len(ts[i]) |-> merged_segment(ts[i][k], i, offset)]
         \o merge_from(ts, ds, i + 1, offset + ds[i])

merge_transcripts(ts, ds) == merge_from(ts, ds, 1, 0)

(***************************************************************************)
(* app.py: compute_speaker_distribution                                    *)
(* Seconds are in tenths of a second, percentages in hundredths.           *)
(***************************************************************************)
k_agent == <<"a","g","e","n","t">>
k_doctor == <<"d","o","c","t","o","r">>
k_customer == <<"c","u","s","t","o","m","e","r">>

\* start, end in seconds when both timestamps parse and end > start, else <<>>
interval(start, end) ==
    IF start = PyNone \/ end = PyNone THEN <<>>
    ELSE IF end.v[1] <= start.v[1] THEN <<>>
    ELSE <<start.v[1], end.v[1]>>

valid_interval(seg) ==
    interval(parse_mmss_to_seconds(get_or(seg.start_timestamp, PyStr(<<>>))),
             parse_mmss_to_seconds(get_or(seg.end_timestamp, PyStr(<<>>))))

\* 'agent' if spk_raw == 'doctor' else spk_raw
role_of(seg) ==
    LET spk_raw == lower(str(get_or(seg.speaker, PyStr(<<>>)))) IN
    IF spk_raw = k_doctor THEN k_agent ELSE spk_raw

\* what a segment adds to speaker_to_secs[role]
segment_secs(iv, spk, role) == IF iv # <<>> /\ spk = role THEN iv[2] - iv[1] ELSE 0

\* speaker_to_secs[role] after the loop, in seconds
RECURSIVE speaker_secs(_, _)
speaker_secs(segments, role) ==
    IF segments = <<>> THEN 0
    ELSE segment_secs(valid_interval(Head(segments)), role_of(Head(segments)), role)
         + speaker_secs(Tail(segments), role)

\* covered_intervals.append((start, end)) of a valid segment
appended(iv) == IF iv # <<>> THEN <<iv>> ELSE <<>>

\* covered_intervals after the loop
RECURSIVE covered_intervals(_)
covered_intervals(segments) ==
    IF segments = <<>> THEN <<>>
    ELSE appended(valid_interval(Head(segments))) \o covered_intervals(Tail(segments))

\* covered_intervals.sort(key=lambda x: x[0]), a stable sort
RECURSIVE insert_by_start(_, _)
insert_by_start(sorted, iv) ==
    IF sorted = <<>> THEN <<iv>>
    ELSE IF iv[1] < Head(sorted)[1] THEN <<iv>> \o sorted
    ELSE <<Head(sorted)>> \o insert_by_start(Tail(sorted), iv)

RECURSIVE sort_by_start(_)
sort_by_start(ivs) ==
    IF ivs = <<>> THEN <<>>
    ELSE insert_by_start(sort_by_start(SubSeq(ivs, 1, Len(ivs) - 1)), ivs[Len(ivs)])

\* the sweep over the sorted intervals: the sum of the merged lengths
RECURSIVE spoken_total(_, _, _)
spoken_total(rest, cur_start, cur_end) ==
    IF rest = <<>> THEN cur_end - cur_start
    ELSE IF Head(rest)[1] <= cur_end
         THEN spoken_total(Tail(rest), cur_start,
                           IF Head(rest)[2] > cur_end THEN Head(rest)[2] ELSE cur_end)
         ELSE (cur_end - cur_start)
              + spoken_total(Tail(rest), Head(rest)[1], Head(rest)[2])

\* dead_air, in tenths of a second
positive_part(x) == IF x > 0 THEN x ELSE 0

unspoken(covered, duration) ==
    IF truthy(duration) /\ covered # <<>>
    THEN positive_part(duration.v[1]
             - 10 * spoken_total(Tail(covered), covered[1][1], covered[1][2]))
    ELSE 0

dead_air(segments, duration) ==
    unspoken(sort_by_start(covered_intervals(segments)), duration)

\* pct(x) with total_parts
pct(x, total_parts) ==
    IF total_parts > 0 THEN RoundHalfEven(x * 10000, total_parts) ELSE 0

\* the returned dict; dead_part is dead_air if total_duration else 0.0
distribution_of(agent, customer, dead, dead_part) ==
    [agent_seconds |-> agent,
     customer_seconds |-> customer,
     dead_air_seconds |-> dead,
     agent_pct |-> pct(agent, agent + customer + dead_part),
     customer_pct |-> pct(customer, agent + customer + dead_part),
     dead_air_pct |-> pct(dead_part, agent + customer + dead_part)]

with_dead_air(agent, customer, dead, duration) ==
    distribution_of(agent, customer, dead, IF truthy(duration) THEN dead ELSE 0)

compute_speaker_distribution(tr, duration) ==
    with_dead_air(10 * speaker_secs(tr, k_agent), 10 * speaker_secs(tr, k_customer),
                  dead_air(tr, duration), duration)

(***************************************************************************)
(* app.py: _transcribe_one, transcribe_in_parallel                         *)
(* The oracle (transcribe_audio) returns a transcript, raises, or never    *)
(* completes. Time is not measured: a timeout may fire whenever the        *)
(* awaited future is not done.                                             *)
(***************************************************************************)
\* max_workers = min(len(paths), 8)
PoolLimit == 8
max_workers(n) == IF n < PoolLimit THEN n ELSE PoolLimit

\* {"segments": []}, and the transcript the oracle gives for chunk i
EmptyResult == [segments |-> <<>>]
OracleResult(i) == [segments |-> <<i>>]

\* the chunks whose _transcribe_one occupies a worker of the pool
Running == {i \in DOMAIN chunk_state : chunk_state[i] \in {"calling", "draining"}}

(***************************************************************************)
(* medb.py: process_multi_call_record, the loop over the calls of a record *)
(* A transcript is the JSON value the oracle response parses to: a dict    *)
(* with a list of segments, a dict whose "segments" is null, or a list.    *)
(***************************************************************************)
Transcript(segs) == [json |-> "dict", segments |-> segs]
NullSegments == [json |-> "null_segments", segments |-> <<>>]
JsonList == [json |-> "list", segments |-> <<>>]

\* len((transcript or {}).get('segments', [])) raises: a list has no get,
\* and len(None) is a TypeError
segments_count_raises(tr) == tr.json # "dict"

\* what the body of the loop does with the list transcripts once the oracle
\* call of a call has ended: the except clause appends the empty transcript
\* whether or not the try block had appended the transcript already
transcripts_after(ts, response) ==
    CASE response.json = "error" -> Append(ts, Transcript(<<>>))
      [] segments_count_raises(response) ->
             Append(Append(ts, response), Transcript(<<>>))
      [] OTHER -> Append(ts, response)

\* call_durations[-1] = 0.0 in the except clause
durations_after(ds, response) ==
    IF response.json = "error" \/ segments_count_raises(response)
    THEN [ds EXCEPT ![Len(ds)] = 0]
    ELSE ds

\* the pairs of zip(transcripts, call_durations)
zipped(ts, ds) == 1..(IF Len(ts) < Len(ds) THEN Len(ts) ELSE Len(ds))

\* merge_transcripts raises on a transcript that is not a dict of segments
merge_raises(ts, ds) == \E k \in zipped(ts, ds) : ts[k].json # "dict"

(***************************************************************************)
(* medb.py: process_multi_call_record._na_video                            *)
(***************************************************************************)
\* the video analysis of the longest call as the merged QA report gets it:
\* without screenshots (an audio-only call) every field is 'NA'
_na_video(v) ==
    IF "screenshots" \notin DOMAIN v \/ ~truthy(v.screenshots)
    THEN [attire_check |-> PyStr(<<"N","A">>), privacy_maintained |-> PyStr(<<"N","A">>),
          visibility_status |-> PyStr(<<"N","A">>)]
    ELSE [attire_check |-> v.attire_check, privacy_maintained |-> v.privacy_maintained,
          visibility_status |-> v.visibility_status]

(***************************************************************************)
(* app.py: _record_id_from_mer, _is_audio, scan_records                    *)
(* A file is its name, a string.                                           *)
(***************************************************************************)
endswith(s, suffix) ==
    Len(suffix) <= Len(s) /\ SubSeq(s, Len(s) - Len(suffix) + 1, Len(s)) = suffix

\* Path.suffix: the name from its last dot on, '' without one
path_suffix(name) ==
    LET dots == {i \in 2..Len(name) : name[i] = "."} IN
    IF dots = {} \/ Len(name) \in dots THEN <<>>
    ELSE SubSeq(name, CHOOSE i \in dots : \A j \in dots : j <= i, Len(name))

k_pdf == <<".","p","d","f">>
k_mer_pdf == <<"_","m","e","r",".","p","d","f">>

AudioSuffixes ==
    { <<".","m","p","3">>, <<".","w","a","v">>, <<".","m","4","a">>,
      <<".","w","e","b","m">>, <<".","o","g","g">>, <<".","m","p","4">> }

\* re.match(r"(.+?)_MER\.pdf$", name, IGNORECASE): <<rid>>, or <<>> for None
_record_id_from_mer(name) ==
    IF Len(name) > Len(k_mer_pdf) /\ endswith(lower(name), k_mer_pdf)
    THEN <<SubSeq(name, 1, Len(name) - Len(k_mer_pdf))>>
    ELSE <<>>

_is_audio(name) == lower(path_suffix(name)) \in AudioSuffixes

\* the test of the first loop
is_mer(name) ==
    /\ lower(path_suffix(name)) = k_pdf
    /\ endswith(lower(name), k_mer_pdf)
    /\ _record_id_from_mer(name) # <<>>

\* the keys of records after the first loop
record_ids(fs) == {_record_id_from_mer(f)[1] : f \in {g \in fs : is_mer(g)}}

\* the MER files that give a record id
mers_of(fs, rid) == {f \in fs : is_mer(f) /\ _record_id_from_mer(f)[1] = rid}

\* the files the second loop appends to the calls of a record
attached(fs, rid) == {f \in fs : _is_audio(f) /\ startswith(f, rid)}

\* the characters of the names, in code point order
CodePoints ==
    <<".", "0", "1", "2", "3", "4", "5", "6", "7", "8", "9">> \o UpperChars
    \o <<"_">> \o LowerChars

ord(c) == CHOOSE i \in 1..Len(CodePoints) : CodePoints[i] = c

\* a < b for two strings
RECURSIVE str_less(_, _)
str_less(a, b) ==
    IF b = <<>> THEN FALSE
    ELSE IF a = <<>> THEN TRUE
    ELSE IF Head(a) # Head(b) THEN ord(Head(a)) < ord(Head(b))
    ELSE str_less(Tail(a), Tail(b))

\* rec["calls"].sort(key=lambda x: x["name"]) of calls of distinct names
RECURSIVE sorted_names(_)
sorted_names(names) ==
    IF names = {} THEN <<>>
    ELSE LET first == CHOOSE x \in names : \A y \in names : x = y \/ str_less(x, y)
         IN  <<first>> \o sorted_names(names \ {first})

\* the calls of a record, sorted and numbered from 1
indexed(names) == [i \in 1..Len(names) |-> [name |-> names[i], index |-> i]]

calls_of(fs, rid) == indexed(sorted_names(attached(fs, rid)))

(***************************************************************************)
(* Exceptions: the attribute lookups of the two functions that are outside *)
(* any try block. A JSON object is a dict; None.get, str.get and           *)
(* True.strip raise AttributeError.                                        *)
(***************************************************************************)
\* a QA matrix item / a behavioral flag that is a JSON object
is_item(it) == "status" \in DOMAIN it
is_flag(f) == "value" \in DOMAIN f

\* for item in qa_items: item.get(...)
ui_summary_raises(report) ==
    \E i \in 1..Len(report.qa_matrix) : ~is_item(report.qa_matrix[i])

\* qc.get(dim, {}).get('value') of an entry that is not an object, or
\* (val or '').strip() of a value that is not a string
qc_entry_raises(entry) ==
    \/ entry # PyAbsent /\ ~IsDict(entry)
    \/ IsDict(entry) /\ truthy(entry.v) /\ ~IsStr(entry.v)

compute_qc_score_raises(qa_report, qc2_report) ==
    \/ ui_summary_raises(qa_report)
    \/ \E d \in QcDimSet : qc_entry_raises(qc2_report.qc_parameters[d])

\* (x or {}).get(...) of a value that is not an object
or_dict_raises(x) == ~is_flag(x) /\ ~IsDict(x) /\ truthy(x)

summarize_record_raises(q, qc2_report) ==
    \/ \E i \in 1..Len(q.qa_matrix) : ~is_item(q.qa_matrix[i])
    \/ or_dict_raises(qc2_report.qc_parameters["call_opening"])
    \/ or_dict_raises(q.behavioral_flags.prompting_detected)
    \/ or_dict_raises(q.behavioral_flags.customer_hesitation)

(***************************************************************************)
(* Inputs: the strings the reports are built from.                         *)
(***************************************************************************)
s_Incorrect == <<"I","n","c","o","r","r","e","c","t">>
s_Correct == <<"C","o","r","r","e","c","t">>
s_Missing == <<"M","i","s","s","i","n","g">>
s_Clubbed == <<"C","l","u","b","b","e","d">>
s_Paraphrased == <<"P","a","r","a","p","h","r","a","s","e","d">>
s_NA == <<"N","A">>
s_INCORRECT == <<"I","N","C","O","R","R","E","C","T">>
s_IncorrectMinor == <<"I","n","c","o","r","r","e","c","t"," ","(","m","i","n","o","r",")">>
s_PaddedMissing == <<" ","M","i","s","s","i","n","g">>
s_MissingThenIncorrect == <<"M","i","s","s","i","n","g",","," ","i","n","c","o","r","r","e","c","t">>
s_ClubbedParaphrased == <<"p","a","r","a","p","h","r","a","s","e","d","+","c","l","u","b","b","e","d">>
s_PartiallyCorrect == <<"P","a","r","t","l","y"," ","c","o","r","r","e","c","t",";"," ","m","i","s","s","i","n","g">>
s_Yes == <<"Y","e","s">>
s_No == <<"N","o">>
s_Partial == <<"P","a","r","t","i","a","l">>
s_PaddedYes == <<" ","Y","E","S"," ">>
s_true == <<"t","r","u","e">>
q_PPName == <<"P","P",".","N","a","m","e">>
q_ppname == <<"p","p",".","n","a","m","e">>
q_PpDOB == <<"P","p",".","D","O","B">>
q_PPDOB == <<"P","P",".","D","O","B">>
q_31 == <<"3",".","1">>
q_PPIDPAN == <<"P","P",".","I","D",".","P","A","N">>
e_NA == <<"N","A">>
e_PaddedNA == <<" ","N","/","A"," ">>
e_JohnDoe == <<"J","o","h","n"," ","D","o","e">>
e_none == <<"N","o","n","e">>

Item(qid, status, expected) ==
    [question_id |-> PyStr(qid), status |-> status, expected_response |-> expected,
     captured_response |-> PyNone, has_typo |-> FALSE]

Flag(value, examples, timestamps) ==
    [value |-> value, examples |-> examples, timestamps |-> timestamps]

AllYes == [i \in QcDimSet |-> PyDict(PyStr(s_Yes))]

\* a processed record with nothing to report: every rule is quiet
DefaultQa ==
    [qa_matrix |-> <<>>,
     critical_issues |-> 0,
     meta |-> [doctor_wpm |-> PyNone],
     behavioral_flags |-> [prompting_detected |-> Flag(PyFalse, PyList(0), PyList(0)),
                           customer_hesitation |-> Flag(PyFalse, PyList(0), PyList(0))],
     video_analysis |-> [attire_check |-> PyStr(s_NA), privacy_maintained |-> PyStr(s_NA),
                         visibility_status |-> PyStr(k_both_visible)],
     technical_status |-> [recording_exists |-> PyTrue, audibility_level |-> PyNone],
     documentation_quality |-> [spelling_errors_count |-> PyNum(0)],
     data_validation |-> [height_cm |-> PyNone, weight_kg |-> PyNone]]

DefaultQc2 == [qc_parameters |-> AllYes]

SeqsUpTo(S, n) == UNION {[1..k -> S] : k \in 0..n}

\* plain items, for the thresholds on the number of Incorrect items
PlainItems ==
    { Item(q_31, PyStr(s_Incorrect), PyStr(s_Yes)), Item(q_31, PyStr(s_Correct), PyStr(s_Yes)) }

\* varied items: personal particulars with and without a real expected
\* response, and one item of every status class
RichItems ==
    { Item(q_PPName, PyStr(s_Missing), PyStr(e_NA)),
      Item(q_ppname, PyStr(s_Incorrect), PyStr(e_NA)),
      Item(q_PPName, PyStr(s_Incorrect), PyStr(e_JohnDoe)),
      Item(q_PPDOB, PyStr(s_Clubbed), PyStr(e_PaddedNA)),
      Item(q_31, PyStr(s_Correct), PyStr(s_Yes)),
      Item(q_31, PyStr(s_NA), PyStr(s_Yes)),
      Item(q_31, PyStr(s_Clubbed), PyStr(s_No)),
      Item(q_31, PyStr(s_Paraphrased), PyStr(s_No)),
      Item(q_31, PyStr(s_Missing), PyStr(e_NA)) }

StatusValues ==
    { PyNone, PyStr(<<>>), PyStr(s_Incorrect), PyStr(s_Correct), PyStr(s_Missing),
      PyStr(s_Clubbed), PyStr(s_Paraphrased), PyStr(s_NA), PyStr(s_INCORRECT),
      PyStr(s_IncorrectMinor), PyStr(s_PaddedMissing), PyStr(s_MissingThenIncorrect),
      PyStr(s_ClubbedParaphrased), PyStr(s_PartiallyCorrect) }

QuestionIds == { q_PPName, q_ppname, q_PpDOB, q_PPIDPAN, q_31 }

ExpectedValues == { PyNone, PyStr(<<>>), PyStr(e_NA), PyStr(e_PaddedNA), PyStr(e_none),
                    PyStr(e_JohnDoe) }

SingleItems ==
    { Item(q, st, ex) : q \in QuestionIds, st \in StatusValues, ex \in ExpectedValues }

FlagValues == { PyTrue, PyFalse, PyNone, PyStr(s_Yes), PyStr(s_true), PyStr(s_No) }

ListValues == { PyNone } \cup { PyList(n) : n \in 0..MaxList }

\* the first k dimensions answered v, the others Yes
QcPrefix(k, v) == [d \in QcDimSet |->
                     IF \E i \in 1..k : QcDims[i] = d THEN v ELSE PyDict(PyStr(s_Yes))]

QcAnswers == { PyDict(PyStr(s_No)), PyDict(PyStr(s_Partial)), PyDict(PyStr(s_NA)),
               PyDict(PyStr(s_PaddedYes)), PyDict(PyNone), PyAbsent }

QcProfiles == { QcPrefix(k, v) : k \in 0..Len(QcDims), v \in QcAnswers }

Durations == { PyNone, PyNum(0), PyNum(300), PyNum(419), PyNum(420), PyNum(599),
               PyNum(600), PyNum(650) }

\* meta.doctor_wpm, in hundredths
WpmValues == { PyNone, PyNum(0), PyNum(7900), PyNum(9000), PyNum(11000), PyNum(14000),
               PyNum(17000), PyNum(19000), PyNum(20100) }

ScoreMatrices ==
    { <<>>,
      <<Item(q_31, PyStr(s_Correct), PyStr(s_Yes))>>,
      <<Item(q_31, PyStr(s_Correct), PyStr(s_Yes)),
        Item(q_PPName, PyStr(s_Missing), PyStr(e_NA))>>,
      <<Item(q_31, PyStr(s_Correct), PyStr(s_Yes)),
        Item(q_31, PyStr(s_Paraphrased), PyStr(s_Yes))>> }

\* the words of the doctor and the seconds they take, as compute_wpm totals them
WordCounts == { 0, 80, 100, 121, 239, 400, 641 }
SpokenSeconds == { 0, 60, 61, 120, 240 }

\* the video analysis of a call: none, the one of an audio file, the one of a
\* video file without frames, and analyses of the frames of a video
VideoAnalyses ==
    { PyNone,
      [attire_check |-> PyStr(k_unknown), visibility_status |-> PyStr(k_unknown),
       privacy_maintained |-> PyNone, screenshots |-> PyList(0)],
      [attire_check |-> PyStr(s_Yes), visibility_status |-> PyStr(k_both_visible),
       privacy_maintained |-> PyTrue, screenshots |-> PyList(1)],
      [attire_check |-> PyStr(s_No), visibility_status |-> PyStr(k_unknown),
       privacy_maintained |-> PyFalse, screenshots |-> PyList(2)] }

\* the files a records directory may hold
FileNames ==
    { <<"1","2","_","M","E","R",".","p","d","f">>,
      <<"1","2","_","m","e","r",".","P","D","F">>,
      <<"1","2","3","_","M","E","R",".","p","d","f">>,
      <<"A","7","_","M","E","R",".","p","d","f">>,
      <<"1","2","_","c","a","l","l","2",".","m","p","3">>,
      <<"1","2","_","c","a","l","l","1",".","m","p","3">>,
      <<"1","2","_","C","a","l","l","3",".","W","A","V">>,
      <<"1","2","3","_","c","a","l","l","1",".","m","p","3">>,
      <<"A","7",".","m","p","4">>,
      <<"n","o","t","e","s",".","t","x","t">> }

\* data_validation.height_cm / weight_kg as the report may carry them, each
\* with the number (in tenths) the value denotes, if it denotes one
MeasureInputs ==
    { [raw |-> PyNone, number |-> <<>>],
      [raw |-> PyAbsent, number |-> <<>>],
      [raw |-> PyNum(349), number |-> <<349>>],
      [raw |-> PyNum(350), number |-> <<350>>],
      [raw |-> PyNum(1299), number |-> <<1299>>],
      [raw |-> PyNum(1300), number |-> <<1300>>],
      [raw |-> PyNum(1500), number |-> <<1500>>],
      [raw |-> PyNum(1501), number |-> <<1501>>],
      [raw |-> PyNum(2100), number |-> <<2100>>],
      [raw |-> PyNum(2101), number |-> <<2101>>],
      [raw |-> PyStr(<<"1","7","0">>), number |-> <<1700>>],
      [raw |-> PyStr(<<"1","2","9",".","9">>), number |-> <<1299>>],
      [raw |-> PyStr(<<" ","2","1","1"," ">>), number |-> <<2110>>],
      [raw |-> PyStr(<<"3","4">>), number |-> <<340>>],
      [raw |-> PyStr(<<"1","7","0"," ","c","m">>), number |-> <<>>],
      [raw |-> PyStr(<<"t","a","l","l">>), number |-> <<>>],
      [raw |-> PyStr(<<>>), number |-> <<>>],
      [raw |-> PyList(1), number |-> <<>>],
      [raw |-> PyTrue, number |-> <<10>>] }

MeasureValues == {m.raw : m \in MeasureInputs}

FewMeasures == { PyNone, PyNum(1700), PyNum(2101), PyStr(<<"t","a","l","l">>) }

\* entries of qc_parameters, prompting flags and QA matrices of unexpected type
MalformedEntries ==
    { PyNone, PyStr(s_No), PyStr(<<>>), PyDict(PyTrue), PyDict(PyFalse), PyDict(PyNum(1)),
      PyDict(PyStr(s_Yes)) }

MalformedDims == {"greetings", "call_opening"}

MalformedFlags == { Flag(PyTrue, PyList(1), PyList(0)), PyStr(s_Yes), PyStr(s_true) }

MalformedMatrices ==
    { <<Item(q_31, PyStr(s_Correct), PyStr(s_Yes))>>,
      <<PyNone>>,
      <<Item(q_31, PyStr(s_Correct), PyStr(s_Yes)), PyNone>> }

\* timestamps as a transcript segment may carry them
t_000 == <<"0",":","0","0">>
t_005 == <<"0",":","0","5">>
t_030 == <<"0",":","3","0">>
t_100 == <<"1",":","0","0">>
t_130 == <<"1",":","3","0">>
t_1005 == <<"1","0",":","0","5">>
t_padded == <<" ","0",":","4","0"," ">>
t_hms == <<"0",":","0","1",":","0","0">>
t_plain == <<"6","5">>
t_words == <<"a","b","c">>
t_nosec == <<"1",":">>
t_frac == <<"0",":","1","0",".","5">>

GoodTimestamps == { PyStr(t_000), PyStr(t_005), PyStr(t_030), PyStr(t_100), PyStr(t_130),
                    PyStr(t_1005), PyStr(t_padded) }

BadTimestamps == { PyStr(t_hms), PyStr(t_plain), PyStr(t_words), PyStr(t_nosec),
                   PyStr(t_frac), PyStr(<<>>), PyNone }

\* segments of a transcript
id_1 == <<"1">>
id_2 == <<"2">>

Seg(id, spk, st, en) ==
    [segment_id |-> PyStr(id), speaker |-> PyStr(spk),
     start_timestamp |-> st, end_timestamp |-> en]

seg_A == Seg(id_1, k_doctor, PyStr(t_005), PyStr(t_030))
seg_B == Seg(id_2, k_customer, PyStr(t_100), PyStr(t_130))
seg_C == Seg(id_1, k_doctor, PyStr(t_words), PyStr(t_030))
seg_D == Seg(id_2, k_customer, PyStr(t_100), PyNone)

\* transcripts of well-timed segments, and of any segments
PlainTranscripts == { <<>>, <<seg_A>>, <<seg_A, seg_B>> }
AnyTranscripts == SeqsUpTo({seg_A, seg_B, seg_C, seg_D}, MaxSegs)

\* segments that overlap seg_A, carry another speaker, or end before they start
k_system == <<"s","y","s","t","e","m">>
seg_E == Seg(id_2, k_agent, PyStr(t_005), PyStr(t_100))
seg_F == Seg(id_2, k_system, PyStr(t_030), PyStr(t_100))
seg_G == Seg(id_2, k_customer, PyStr(t_100), PyStr(t_030))

SpeakerTranscripts == SeqsUpTo({seg_A, seg_B, seg_C, seg_E, seg_F, seg_G}, MaxSegs)

\* media durations: not supplied, 0, 20 s, 100 s, 100.5 s
TotalDurations == { PyNone, PyNum(0), PyNum(200), PyNum(1000), PyNum(1005) }

\* call durations in tenths of a second: unknown (0), 200 s, 300 s, 300.5 s
CallDurations == { 0, 2000, 3000, 3005 }

\* offsets in tenths of a second: every whole second up to MaxSeconds, the
\* ends of the range, and offsets off the whole second
ClockInputs ==
    {10 * s : s \in 0..MaxSeconds}
    \cup {10 * s : s \in {3599, 3600, 5999, 6000, 35999, 36000, 359940, 359999}}
    \cup {4, 5, 6, 15, 25, 599, 649, 655}

(***************************************************************************)
(* The state: the reports of one processed record (merged_qa_report.json,  *)
(* merged_qa_report_part2.json, the media duration) and the results last   *)
(* computed from them, each <<>> until computed and <<result>> after.      *)
(***************************************************************************)
InitMatrix ==
    /\ \E m \in SeqsUpTo(PlainItems, MaxItems) \cup SeqsUpTo(RichItems, MaxRich)
                 \cup SeqsUpTo(SingleItems, 1) :
           qa = [DefaultQa EXCEPT !.qa_matrix = m]
    /\ qc2 = DefaultQc2
    /\ duration_sec = PyNone

InitFlags ==
    /\ \E v \in FlagValues, ex \in ListValues, ts \in ListValues :
           qa = [DefaultQa EXCEPT !.behavioral_flags.prompting_detected = Flag(v, ex, ts)]
    /\ qc2 = DefaultQc2
    /\ duration_sec = PyNone

\* the QC answers vary, over a fully compliant QA matrix
InitQcAnswers ==
    /\ qa = [DefaultQa EXCEPT !.qa_matrix = <<Item(q_31, PyStr(s_Correct), PyStr(s_Yes))>>,
                              !.meta.doctor_wpm = PyNum(14000)]
    /\ \E qc \in QcProfiles : qc2 = [qc_parameters |-> qc]
    /\ duration_sec \in {PyNone, PyNum(420), PyNum(600)}

\* the QA matrix, the rate of speech and the duration vary, all answers Yes
InitScore ==
    /\ \E m \in ScoreMatrices, w \in WpmValues :
           qa = [DefaultQa EXCEPT !.qa_matrix = m, !.meta.doctor_wpm = w]
    /\ qc2 = DefaultQc2
    /\ duration_sec \in Durations

\* the rate of speech takes every whole value, or is unavailable
InitWpm ==
    /\ \E w \in {PyNone} \cup {PyNum(100 * n) : n \in 0..MaxWpm} :
           qa = [DefaultQa EXCEPT !.meta.doctor_wpm = w]
    /\ qc2 = DefaultQc2
    /\ duration_sec = PyNum(600)

\* the height and the weight vary, with and without a prompting issue
InitMeasures ==
    /\ \E a \in MeasureValues, b \in FewMeasures, v \in {PyTrue, PyFalse} :
         \/ qa = [DefaultQa EXCEPT !.data_validation = [height_cm |-> a, weight_kg |-> b],
                                   !.behavioral_flags.prompting_detected.value = v]
         \/ qa = [DefaultQa EXCEPT !.data_validation = [height_cm |-> b, weight_kg |-> a],
                                   !.behavioral_flags.prompting_detected.value = v]
    /\ qc2 = DefaultQc2
    /\ duration_sec = PyNone

\* a QC dimension, the prompting flag or a QA matrix item of unexpected type
InitMalformed ==
    /\ \E m \in MalformedMatrices, f \in MalformedFlags :
           qa = [DefaultQa EXCEPT !.qa_matrix = m,
                                  !.behavioral_flags.prompting_detected = f]
    /\ \E d \in MalformedDims, e \in MalformedEntries :
           qc2 = [qc_parameters |-> [AllYes EXCEPT ![d] = e]]
    /\ duration_sec = PyNum(600)

\* nothing was reported: no QA item, no QC answer, no rate of speech
InitEmptyReports ==
    /\ qa = DefaultQa
    /\ qc2 = [qc_parameters |-> [d \in QcDimSet |-> PyAbsent]]
    /\ duration_sec \in Durations

\* the rate of speech is the one computed from the doctor's words and seconds
InitSpokenWpm ==
    /\ \E words \in WordCounts, seconds \in SpokenSeconds :
           qa = [DefaultQa EXCEPT !.meta.doctor_wpm = PyNum(safe_wpm(words, seconds))]
    /\ qc2 = DefaultQc2
    /\ duration_sec = PyNum(600)

\* the video analysis is the one process_multi_call_record puts in the report
InitVideo ==
    /\ \E v \in VideoAnalyses, a \in {PyNone, PyStr(k_poor)} :
           qa = [DefaultQa EXCEPT !.video_analysis = _na_video(v),
                                  !.technical_status.audibility_level = a]
    /\ \E k \in {0, 1} : qc2 = [qc_parameters |-> QcPrefix(k, PyDict(PyStr(s_No)))]
    /\ duration_sec \in {PyNone, PyNum(600)}

\* no timestamp is under consideration
ClockIdle == total_seconds = 0 /\ timestamp = PyStr(t_000) /\ parsed = <<>>

\* no report is under consideration
EngineIdle ==
    /\ qa = DefaultQa /\ qc2 = DefaultQc2 /\ duration_sec = PyNone
    /\ issues = <<>> /\ summary = <<>> /\ qc_score = <<>> /\ raised = {}

\* no transcript is under consideration
MergeIdle == transcripts = <<>> /\ call_durations = <<>> /\ merged = <<>>

\* no call is shown
SpeakerIdle == transcript = <<>> /\ total_duration = PyNone /\ distribution = <<>>

\* no call is being transcribed
PoolIdle ==
    /\ chunk_fate = <<>> /\ chunk_state = <<>> /\ chunk_result = <<>>
    /\ collect_index = 1 /\ results = <<>> /\ pool_returned = <<>>

\* no record is being processed
RecordIdle ==
    /\ media_files = <<>> /\ call_index = 1 /\ in_flight = {}
    /\ record_transcripts = <<>> /\ record_durations = <<>>
    /\ merged_transcript = <<>>

\* no directory is being scanned
ScanIdle == files = {} /\ records = <<>>

\* the service has no record
ServiceIdle ==
    /\ source = <<>> /\ staged = <<>> /\ processed_dir = <<>>
    /\ artifacts = <<>> /\ oracle_calls = <<>> /\ final_decision = <<>>
    /\ jobs = <<>> /\ started = 0 /\ last_response = <<>>

Init ==
    /\ InitMatrix \/ InitFlags \/ InitQcAnswers \/ InitScore \/ InitWpm
          \/ InitMeasures \/ InitMalformed \/ InitEmptyReports \/ InitSpokenWpm
          \/ InitVideo
    /\ issues = <<>>
    /\ summary = <<>>
    /\ qc_score = <<>>
    /\ raised = {}
    /\ ClockIdle
    /\ MergeIdle
    /\ SpeakerIdle
    /\ PoolIdle
    /\ RecordIdle
    /\ ScanIdle
    /\ ServiceIdle

\* decision_builder.main: the decision of the record is rebuilt
SummarizeRecord ==
    /\ IF summarize_record_raises(qa, qc2)
       THEN raised' = raised \cup {"summarize_record"} /\ UNCHANGED issues
       ELSE issues' = <<summarize_record(qa, qc2)>> /\ UNCHANGED raised
    /\ UNCHANGED <<qa, qc2, duration_sec, summary, qc_score>>
    /\ UNCHANGED <<clock_vars, merge_vars, speaker_vars, pool_vars, record_vars, scan_vars, service_vars>>

\* derive_top_metrics: the compliance summary of the record is computed
ComputeUiSummary ==
    /\ IF ui_summary_raises(qa)
       THEN raised' = raised \cup {"compute_ui_summary"} /\ UNCHANGED summary
       ELSE summary' = <<compute_ui_summary(qa)>> /\ UNCHANGED raised
    /\ UNCHANGED <<qa, qc2, duration_sec, issues, qc_score>>
    /\ UNCHANGED <<clock_vars, merge_vars, speaker_vars, pool_vars, record_vars, scan_vars, service_vars>>

\* api_qcscore: the QC score of the record is computed
ComputeQcScore ==
    /\ IF compute_qc_score_raises(qa, qc2)
       THEN raised' = raised \cup {"compute_qc_score"} /\ UNCHANGED qc_score
       ELSE qc_score' = <<compute_qc_score(qa, qc2, duration_sec)>> /\ UNCHANGED raised
    /\ UNCHANGED <<qa, qc2, duration_sec, issues, summary>>
    /\ UNCHANGED <<clock_vars, merge_vars, speaker_vars, pool_vars, record_vars, scan_vars, service_vars>>

Next == SummarizeRecord \/ ComputeUiSummary \/ ComputeQcScore

Spec == Init /\ [][Next]_vars

(***************************************************************************)
(* The timestamp utility: an offset is formatted, a timestamp is parsed.   *)
(***************************************************************************)
InitClock ==
    /\ \/ total_seconds \in ClockInputs /\ timestamp = PyStr(t_000)
       \/ total_seconds = 0 /\ timestamp \in GoodTimestamps \cup BadTimestamps
    /\ parsed = <<>>
    /\ EngineIdle
    /\ MergeIdle
    /\ SpeakerIdle
    /\ PoolIdle
    /\ RecordIdle
    /\ ScanIdle
    /\ ServiceIdle

\* app.py seconds_to_mmss
SecondsToMmss ==
    /\ timestamp' = PyStr(seconds_to_mmss(total_seconds))
    /\ parsed' = <<>>
    /\ UNCHANGED <<total_seconds, engine_vars, merge_vars, speaker_vars, pool_vars, record_vars, scan_vars, service_vars>>

\* medb.py seconds_to_timestamp
SecondsToTimestamp ==
    /\ timestamp' = PyStr(seconds_to_timestamp(total_seconds))
    /\ parsed' = <<>>
    /\ UNCHANGED <<total_seconds, engine_vars, merge_vars, speaker_vars, pool_vars, record_vars, scan_vars, service_vars>>

\* app.py parse_mmss_to_seconds
ParseMmssToSeconds ==
    /\ parsed' = <<parse_mmss_to_seconds(timestamp)>>
    /\ UNCHANGED <<total_seconds, timestamp, engine_vars, merge_vars, speaker_vars, pool_vars, record_vars, scan_vars, service_vars>>

\* medb.py parse_timestamp_to_seconds
ParseTimestampToSeconds ==
    /\ parsed' = <<parse_timestamp_to_seconds(timestamp)>>
    /\ UNCHANGED <<total_seconds, timestamp, engine_vars, merge_vars, speaker_vars, pool_vars, record_vars, scan_vars, service_vars>>

NextClock ==
    SecondsToMmss \/ SecondsToTimestamp \/ ParseMmssToSeconds \/ ParseTimestampToSeconds

SpecClock == InitClock /\ [][NextClock]_vars

(***************************************************************************)
(* The multi-call merge: the transcripts of a record's calls are merged.   *)
(***************************************************************************)
InitMerge ==
    /\ \/ \E n \in 1..MaxCalls :
             /\ transcripts \in [1..n -> PlainTranscripts]
             /\ call_durations \in [1..n -> CallDurations \ {2000}]
       \/ \E n \in 1..2 :
             /\ transcripts \in [1..n -> AnyTranscripts]
             /\ call_durations = [i \in 1..n |-> IF i = 1 THEN 3000 ELSE 2000]
       \/ /\ transcripts \in [1..2 -> PlainTranscripts]
          /\ call_durations \in [1..1 -> CallDurations]
    /\ merged = <<>>
    /\ EngineIdle
    /\ ClockIdle
    /\ SpeakerIdle
    /\ PoolIdle
    /\ RecordIdle
    /\ ScanIdle
    /\ ServiceIdle

\* medb.py merge_transcripts, as process_multi_call_record calls it
MergeTranscripts ==
    /\ merged' = <<merge_transcripts(transcripts, call_durations)>>
    /\ UNCHANGED <<transcripts, call_durations, engine_vars, clock_vars, speaker_vars, pool_vars, record_vars, scan_vars, service_vars>>

NextMerge == MergeTranscripts

SpecMerge == InitMerge /\ [][NextMerge]_vars

(***************************************************************************)
(* The speaker analysis of a call: its speaker distribution is computed.   *)
(***************************************************************************)
InitSpeaker ==
    /\ transcript \in SpeakerTranscripts
    /\ total_duration \in TotalDurations
    /\ distribution = <<>>
    /\ EngineIdle
    /\ ClockIdle
    /\ MergeIdle
    /\ PoolIdle
    /\ RecordIdle
    /\ ScanIdle
    /\ ServiceIdle

\* app.py compute_speaker_distribution, as the speaker endpoints call it
ComputeSpeakerDistribution ==
    /\ distribution' = <<compute_speaker_distribution(transcript, total_duration)>>
    /\ UNCHANGED <<transcript, total_duration, engine_vars, clock_vars, merge_vars, pool_vars, record_vars, scan_vars, service_vars>>

NextSpeaker == ComputeSpeakerDistribution

SpecSpeaker == InitSpeaker /\ [][NextSpeaker]_vars

(***************************************************************************)
(* The chunk pool: transcribe_in_parallel has queued one _transcribe_one   *)
(* per chunk path and collects the results in path order.                  *)
(***************************************************************************)
other_than_pool == <<engine_vars, clock_vars, merge_vars, speaker_vars, record_vars, scan_vars, service_vars>>

InitPool ==
    /\ \E n \in 0..MaxChunks :
          /\ chunk_fate \in [1..n -> {"ok", "raises", "hangs"}]
          /\ chunk_state = [i \in 1..n |-> "queued"]
          /\ chunk_result = [i \in 1..n |-> <<>>]
          /\ results = [i \in 1..n |-> <<>>]
    /\ collect_index = 1
    /\ pool_returned = <<>>
    /\ EngineIdle
    /\ ClockIdle
    /\ MergeIdle
    /\ SpeakerIdle
    /\ RecordIdle
    /\ ScanIdle
    /\ ServiceIdle

\* a free worker of the pool takes the oldest queued chunk: _transcribe_one
\* submits the oracle call to its own one-thread executor and waits for it
StartChunk(i) ==
    /\ i \in DOMAIN chunk_state
    /\ chunk_state[i] = "queued"
    /\ \A j \in 1..(i - 1) : chunk_state[j] # "queued"
    /\ Cardinality(Running) < max_workers(Len(chunk_state))
    /\ chunk_state' = [chunk_state EXCEPT ![i] = "calling"]
    /\ UNCHANGED <<chunk_fate, chunk_result, collect_index, results, pool_returned>>
    /\ UNCHANGED other_than_pool

\* the oracle call of chunk i completes. Awaited, its transcript is returned
\* or its exception is caught; after the timeout, the executor's shutdown
\* ends and the TimeoutError handler returns the empty result
OracleCompletes(i) ==
    /\ i \in DOMAIN chunk_state
    /\ chunk_state[i] \in {"calling", "draining"}
    /\ chunk_fate[i] # "hangs"
    /\ chunk_state' = [chunk_state EXCEPT ![i] = "done"]
    /\ chunk_result' = [chunk_result EXCEPT ![i] =
           IF chunk_state[i] = "calling" /\ chunk_fate[i] = "ok"
           THEN <<OracleResult(i)>> ELSE <<EmptyResult>>]
    /\ UNCHANGED <<chunk_fate, collect_index, results, pool_returned>>
    /\ UNCHANGED other_than_pool

\* _future.result(timeout=240.0) raises TimeoutError inside the with block:
\* leaving the block calls shutdown(wait=True), which joins the oracle thread
InnerTimeout(i) ==
    /\ i \in DOMAIN chunk_state
    /\ chunk_state[i] = "calling"
    /\ chunk_state' = [chunk_state EXCEPT ![i] = "draining"]
    /\ UNCHANGED <<chunk_fate, chunk_result, collect_index, results, pool_returned>>
    /\ UNCHANGED other_than_pool

\* future_by_index[i].result(timeout=per_chunk_timeout) returns
CollectResult ==
    /\ collect_index \in DOMAIN chunk_state
    /\ pool_returned = <<>>
    /\ chunk_state[collect_index] = "done"
    /\ results' = [results EXCEPT ![collect_index] = chunk_result[collect_index]]
    /\ collect_index' = collect_index + 1
    /\ UNCHANGED <<chunk_fate, chunk_state, chunk_result, pool_returned>>
    /\ UNCHANGED other_than_pool

\* future_by_index[i].result(timeout=per_chunk_timeout) raises TimeoutError
CollectTimeout ==
    /\ collect_index \in DOMAIN chunk_state
    /\ pool_returned = <<>>
    /\ chunk_state[collect_index] # "done"
    /\ results' = [results EXCEPT ![collect_index] = <<EmptyResult>>]
    /\ collect_index' = collect_index + 1
    /\ UNCHANGED <<chunk_fate, chunk_state, chunk_result, pool_returned>>
    /\ UNCHANGED other_than_pool

\* the loop is over; leaving the with block joins every worker of the pool,
\* then the list is returned (at once when there is no path)
ReturnResults ==
    /\ pool_returned = <<>>
    /\ collect_index = Len(chunk_state) + 1
    /\ \A i \in DOMAIN chunk_state : chunk_state[i] = "done"
    /\ pool_returned' = <<[i \in DOMAIN results |-> results[i][1]]>>
    /\ UNCHANGED <<chunk_fate, chunk_state, chunk_result, collect_index, results>>
    /\ UNCHANGED other_than_pool

NextPool ==
    \/ \E i \in 1..MaxChunks : StartChunk(i) \/ OracleCompletes(i) \/ InnerTimeout(i)
    \/ CollectResult
    \/ CollectTimeout
    \/ ReturnResults

\* threads that can run do run, a timeout that is due fires, and an oracle
\* call that completes does complete
FairPool ==
    /\ \A i \in 1..MaxChunks :
          WF_vars(StartChunk(i)) /\ WF_vars(OracleCompletes(i)) /\ WF_vars(InnerTimeout(i))
    /\ WF_vars(CollectResult)
    /\ WF_vars(CollectTimeout)
    /\ WF_vars(ReturnResults)

SpecPool == InitPool /\ [][NextPool]_vars /\ FairPool

(***************************************************************************)
(* A record: process_multi_call_record goes through the media files of the *)
(* record one after the other, then merges. Every call lasts at most 900   *)
(* seconds, so each is transcribed in one oracle call.                     *)
(***************************************************************************)
other_than_record ==
    <<engine_vars, clock_vars, merge_vars, speaker_vars, pool_vars, scan_vars, service_vars>>

OracleResponses ==
    { Transcript(<<seg_A>>), Transcript(<<seg_A, seg_B>>), NullSegments, JsonList,
      [json |-> "error", segments |-> <<>>] }

InitRecord ==
    /\ \E n \in 1..MaxCalls :
          media_files \in [1..n -> [duration : {0, 3005}, response : OracleResponses]]
    /\ call_index = 1
    /\ in_flight = {}
    /\ record_transcripts = <<>>
    /\ record_durations = <<>>
    /\ merged_transcript = <<>>
    /\ EngineIdle
    /\ ClockIdle
    /\ MergeIdle
    /\ SpeakerIdle
    /\ PoolIdle
    /\ ScanIdle
    /\ ServiceIdle

\* the body of the loop up to the oracle call: the duration of the call is
\* appended, then transcribe_audio is called in the same thread
BeginCall ==
    /\ call_index \in DOMAIN media_files
    /\ in_flight = {}
    /\ record_durations' = Append(record_durations, media_files[call_index].duration)
    /\ in_flight' = {call_index}
    /\ UNCHANGED <<media_files, call_index, record_transcripts, merged_transcript>>
    /\ UNCHANGED other_than_record

\* the oracle call has returned or raised: the rest of the body
EndCall ==
    /\ in_flight = {call_index}
    /\ record_transcripts' =
           transcripts_after(record_transcripts, media_files[call_index].response)
    /\ record_durations' =
           durations_after(record_durations, media_files[call_index].response)
    /\ in_flight' = {}
    /\ call_index' = call_index + 1
    /\ UNCHANGED <<media_files, merged_transcript>>
    /\ UNCHANGED other_than_record

\* merged_transcript = merge_transcripts(transcripts, call_durations)
MergeRecord ==
    /\ call_index = Len(media_files) + 1
    /\ merged_transcript = <<>>
    /\ merged_transcript' =
           IF merge_raises(record_transcripts, record_durations)
           THEN <<[raised |-> TRUE, segments |-> <<>>]>>
           ELSE <<[raised |-> FALSE,
                   segments |-> merge_transcripts(
                       [k \in DOMAIN record_transcripts |-> record_transcripts[k].segments],
                       record_durations)]>>
    /\ UNCHANGED <<media_files, call_index, in_flight, record_transcripts, record_durations>>
    /\ UNCHANGED other_than_record

NextRecord == BeginCall \/ EndCall \/ MergeRecord

SpecRecord == InitRecord /\ [][NextRecord]_vars

(***************************************************************************)
(* The records directory: scan_records reads the names of its files.       *)
(***************************************************************************)
other_than_scan ==
    <<engine_vars, clock_vars, merge_vars, speaker_vars, pool_vars, record_vars,
      service_vars>>

InitScan ==
    /\ files \in {fs \in SUBSET FileNames : Cardinality(fs) <= MaxFiles}
    /\ records = <<>>
    /\ EngineIdle
    /\ ClockIdle
    /\ MergeIdle
    /\ SpeakerIdle
    /\ PoolIdle
    /\ RecordIdle
    /\ ServiceIdle

\* scan_records. Of two MER files of one record id, the one the directory
\* lists first gives mer_pdf.
ScanRecords ==
    /\ \E mer \in [record_ids(files) -> files] :
          /\ \A rid \in record_ids(files) : mer[rid] \in mers_of(files, rid)
          /\ records' = <<[rid \in record_ids(files) |->
                             [mer_pdf |-> mer[rid], calls |-> calls_of(files, rid)]]>>
    /\ UNCHANGED files
    /\ UNCHANGED other_than_scan

NextScan == ScanRecords

SpecScan == InitScan /\ [][NextScan]_vars

(***************************************************************************)
(* The service: the records directory with the source files of each        *)
(* record, the record directories with their copies and the _processed     *)
(* directories, the process_record threads (app.py), decision_builder.main *)
(* and s3_uploader.main run from the command line, and the endpoints that  *)
(* report on records.  A file holds the bytes it was given or the pointer  *)
(* the uploader wrote over them.                                           *)
(***************************************************************************)
other_than_service ==
    <<engine_vars, clock_vars, merge_vars, speaker_vars, pool_vars, record_vars,
      scan_vars>>

\* the records of the directory; every one has <rid>_MER.pdf and one call
RecordIds == {"12", "A7"}

\* the ids requests name: those and one of no record
RequestIds == RecordIds \cup {"zz"}

k_bytes == "bytes"
k_pointer == "pointer"
k_absent == "absent"

\* the reports load_json_safe gives for files that do not exist
EmptyQc2 == [qc_parameters |-> [d \in QcDimSet |-> PyAbsent]]

NoReports == [qa |-> DefaultQa, qc2 |-> EmptyQc2, duration |-> PyNone]

\* what the oracle may answer for a record: a clean call, or one whose
\* recording is missing
OracleReports ==
    << [qa |-> [DefaultQa EXCEPT
                   !.qa_matrix = <<Item(q_31, PyStr(s_Correct), PyStr(s_Yes))>>,
                   !.meta.doctor_wpm = PyNum(14000)],
        qc2 |-> DefaultQc2, duration |-> PyNum(420)],
       [qa |-> [DefaultQa EXCEPT !.technical_status.recording_exists = PyFalse],
        qc2 |-> DefaultQc2, duration |-> PyNum(300)] >>

\* a thread is known by its arguments and by where it is: before the
\* subprocess ("scan") or waiting for it ("medb"); nothing tells apart two
\* threads with the same arguments at the same place
Job(rid, force, pc) == [rid |-> rid, force |-> force, pc |-> pc]

Jobs == [rid : RequestIds, force : BOOLEAN, pc : {"scan", "medb"}]

\* the threads in flight for the record id
InFlight(rid) ==
    jobs[Job(rid, FALSE, "scan")] + jobs[Job(rid, TRUE, "scan")]
        + jobs[Job(rid, FALSE, "medb")] + jobs[Job(rid, TRUE, "medb")]

\* the reports of a _processed directory: none (0), or an answer of the oracle
ReportsAt(n) == IF n = 0 THEN NoReports ELSE OracleReports[n]

\* which reports the _processed directory of a record holds
reports_of(rid) == IF artifacts[rid] = <<>> THEN 0 ELSE artifacts[rid][1].report

\* api_records_dashboard: the category of a record from its final decision
dashboard_category(decision) ==
    IF decision = <<>> THEN "pass"
    ELSE IF decision[1].ASSIGNBACK # <<>> THEN "assignback"
    ELSE IF decision[1].OPS_ATTENTION # <<>> THEN "ops_attention"
    ELSE IF decision[1].TECH_ISSUES # <<>> THEN "tech_issues"
    ELSE IF decision[1].FLAGS # <<>> THEN "flags"
    ELSE "pass"

\* the QC score the dashboard shows for each of the reports
dashboard_score ==
    [n \in 0..Len(OracleReports) |->
        compute_qc_score(ReportsAt(n).qa, ReportsAt(n).qc2, ReportsAt(n).duration).total_score]

\* the decision decision_builder writes for each of the reports
decision_for ==
    [n \in 0..Len(OracleReports) |->
        summarize_record(ReportsAt(n).qa, ReportsAt(n).qc2)]

\* one row of a response: an error, a category, a QC score, a decision
Row(error, category, score, decision) ==
    [error |-> error, category |-> category, qcScore |-> score, decision |-> decision]

InitService ==
    /\ source = [rid \in RecordIds |-> k_bytes]
    /\ staged = [rid \in RecordIds |-> k_absent]
    /\ processed_dir = [rid \in RecordIds |-> FALSE]
    /\ artifacts = [rid \in RecordIds |-> <<>>]
    /\ oracle_calls = [rid \in RecordIds |-> 0]
    /\ final_decision = [rid \in RecordIds |-> <<>>]
    /\ jobs = [j \in Jobs |-> 0]
    /\ started = 0
    /\ last_response = <<>>
    /\ EngineIdle
    /\ ClockIdle
    /\ MergeIdle
    /\ SpeakerIdle
    /\ PoolIdle
    /\ RecordIdle
    /\ ScanIdle

\* api_process_record: a thread is started for the record and the request
\* is answered at once
ApiProcessRecord(rid, force) ==
    /\ started < MaxJobs
    /\ started' = started + 1
    /\ jobs' = [jobs EXCEPT ![Job(rid, force, "scan")] = @ + 1]
    /\ last_response' = [endpoint |-> "process", status |-> 200,
                    rows |-> (rid :> Row("", "", <<>>, <<>>))]
    /\ UNCHANGED <<source, staged, processed_dir, artifacts, oracle_calls,
                   final_decision>>
    /\ UNCHANGED other_than_service

\* process_record up to the subprocess: the record is looked up, the log
\* is opened (which creates _processed), the MER and the media are copied
\* into the record directory unless a copy is there
StageRecord(j) ==
    /\ j.pc = "scan" /\ jobs[j] > 0
    /\ IF j.rid \notin RecordIds
       THEN /\ jobs' = [jobs EXCEPT ![j] = @ - 1]
            /\ UNCHANGED <<processed_dir, staged>>
       ELSE /\ jobs' = [jobs EXCEPT ![j] = @ - 1,
                                    ![Job(j.rid, j.force, "medb")] = @ + 1]
            /\ processed_dir' = [processed_dir EXCEPT ![j.rid] = TRUE]
            /\ staged' = [staged EXCEPT ![j.rid] =
                              IF @ = k_absent THEN source[j.rid] ELSE @]
    /\ UNCHANGED <<source, artifacts, oracle_calls, final_decision, started,
                   last_response>>
    /\ UNCHANGED other_than_service

\* what medb.py leaves of a run for the record that reached the oracle
written(rid, report) == <<[run |-> oracle_calls[rid] + 1, report |-> report]>>

\* process_record from the subprocess on: medb.py --record-dir --api-key
\* transcribes every call, analyses the merged transcript and writes the
\* artifacts, or fails before it reaches the oracle; force is not passed on
RunMedb(j) ==
    /\ j.pc = "medb" /\ jobs[j] > 0
    /\ jobs' = [jobs EXCEPT ![j] = @ - 1]
    /\ \/ \E report \in DOMAIN OracleReports :
             /\ oracle_calls' = [oracle_calls EXCEPT ![j.rid] = @ + 1]
             /\ artifacts' = [artifacts EXCEPT ![j.rid] = written(j.rid, report)]
       \/ UNCHANGED <<oracle_calls, artifacts>>
    /\ UNCHANGED <<source, staged, processed_dir, final_decision, started,
                   last_response>>
    /\ UNCHANGED other_than_service

\* decision_builder.main: final_decision.json is written for every record
\* directory that has a _processed directory
BuildDecisions ==
    /\ \E rid \in RecordIds : processed_dir[rid]
    /\ final_decision' =
          [rid \in RecordIds |->
              IF processed_dir[rid]
              THEN <<decision_for[reports_of(rid)]>>
              ELSE final_decision[rid]]
    /\ UNCHANGED <<source, staged, processed_dir, artifacts, oracle_calls, jobs,
                   started, last_response>>
    /\ UNCHANGED other_than_service

\* the uploaded file is removed instead of overwritten with its pointer
replaced_removed(content, uploaded) ==
    IF uploaded /\ content # k_absent THEN k_absent ELSE content

\* the content of a file once upload_and_replace has handled it
replaced(content, uploaded) ==
    IF uploaded /\ content # k_absent THEN k_pointer ELSE content

\* s3_uploader.main: every MER and media file under the workspace is
\* uploaded, and each one whose upload succeeded is overwritten with the
\* pointer to its object; the uploads of the files of a record succeed or
\* fail together
UploadAndReplace ==
    /\ \E uploaded \in SUBSET RecordIds :
          /\ source' = [rid \in RecordIds |-> replaced(source[rid], rid \in uploaded)]
          /\ staged' = [rid \in RecordIds |-> replaced(staged[rid], rid \in uploaded)]
    /\ UNCHANGED <<processed_dir, artifacts, oracle_calls, final_decision, jobs,
                   started, last_response>>
    /\ UNCHANGED other_than_service

\* the row of api_records_dashboard for a record
dashboard_row(rid) ==
    Row("", dashboard_category(final_decision[rid]), <<dashboard_score[reports_of(rid)]>>,
        <<>>)

\* api_records_dashboard: one row per record of the directory
ApiRecordsDashboard ==
    /\ last_response' = [endpoint |-> "dashboard", status |-> 200,
                    rows |-> [rid \in RecordIds |-> dashboard_row(rid)]]
    /\ UNCHANGED <<source, staged, processed_dir, artifacts, oracle_calls,
                   final_decision, jobs, started>>
    /\ UNCHANGED other_than_service

\* whether the _processed directory of the id exists
base_exists(rid) == IF rid \in RecordIds THEN processed_dir[rid] ELSE FALSE

\* final_decision.json of the id as load_json_safe reads it
decision_of(rid) == IF rid \in RecordIds THEN final_decision[rid] ELSE <<>>

\* api_record_details: 404 not_processed unless _processed exists
ApiRecordDetails(rid) ==
    /\ last_response' =
          IF ~base_exists(rid)
          THEN [endpoint |-> "details", status |-> 404,
                rows |-> (rid :> Row("not_processed", "", <<>>, <<>>))]
          ELSE [endpoint |-> "details", status |-> 200,
                rows |-> (rid :> Row("", "", <<>>, decision_of(rid)))]
    /\ UNCHANGED <<source, staged, processed_dir, artifacts, oracle_calls,
                   final_decision, jobs, started>>
    /\ UNCHANGED other_than_service

\* api_record_final_decision: the stored decision, or {} when there is none
ApiRecordFinalDecision(rid) ==
    /\ last_response' =
          [endpoint |-> "final_decision", status |-> 200,
           rows |-> (rid :> Row("", "", <<>>,
                                IF base_exists(rid) THEN decision_of(rid) ELSE <<>>))]
    /\ UNCHANGED <<source, staged, processed_dir, artifacts, oracle_calls,
                   final_decision, jobs, started>>
    /\ UNCHANGED other_than_service

NextService ==
    \/ \E rid \in RequestIds, force \in BOOLEAN : ApiProcessRecord(rid, force)
    \/ \E j \in Jobs : StageRecord(j)
    \/ \E j \in Jobs : RunMedb(j)
    \/ BuildDecisions
    \/ UploadAndReplace
    \/ ApiRecordsDashboard
    \/ \E rid \in RequestIds : ApiRecordDetails(rid)
    \/ \E rid \in RequestIds : ApiRecordFinalDecision(rid)

SpecService == InitService /\ [][NextService]_vars

(***************************************************************************)
(* Properties of the decision rules (summarize_record).                    *)
(***************************************************************************)
\* the number of entries of an issue list with the given title
CountIssue(list, title) == Cardinality({i \in 1..Len(list) : list[i].issue = title})

\* every entry of the list with the given title carries the given details
DetailsAre(list, title, detail) ==
    \A i \in 1..Len(list) : list[i].issue = title => list[i].details = detail

\* the number of QA matrix items whose status is Incorrect, in any letter case
NumStatusIncorrect ==
    Cardinality({i \in 1..Len(qa.qa_matrix) :
                    IsStr(qa.qa_matrix[i].status)
                    /\ lower(qa.qa_matrix[i].status.v) = k_incorrect})

Buckets == {"ASSIGNBACK", "OPS_ATTENTION", "FLAGS", "TECH_ISSUES"}

\* C1: with n items of status Incorrect, the decision holds the ASSIGNBACK issue
\* 'Many incorrect documentation entries' iff n >= 8 and the OPS_ATTENTION issue
\* '4-7 incorrect documentation entries' iff 4 <= n <= 7; never both, neither
\* for n <= 3, each once, in its own bucket only, and with count n.
C1_IncorrectBands ==
    issues # <<>> =>
        LET d == issues[1]
            n == NumStatusIncorrect
            many == "Many incorrect documentation entries"
            some == "4-7 incorrect documentation entries"
            nMany == CountIssue(d.ASSIGNBACK, many)
            nSome == CountIssue(d.OPS_ATTENTION, some)
        IN  /\ nMany = (IF n >= 8 THEN 1 ELSE 0)
            /\ nSome = (IF 4 <= n /\ n <= 7 THEN 1 ELSE 0)
            /\ nMany + nSome <= 1
            /\ (n <= 3 => nMany + nSome = 0)
            /\ DetailsAre(d.ASSIGNBACK, many, n)
            /\ DetailsAre(d.OPS_ATTENTION, some, n)
            /\ \A b \in Buckets \ {"ASSIGNBACK"} : CountIssue(d[b], many) = 0
            /\ \A b \in Buckets \ {"OPS_ATTENTION"} : CountIssue(d[b], some) = 0

\* a decision over eight Incorrect items: the ASSIGNBACK threshold is met
C1_Witness ==
    /\ issues # <<>>
    /\ NumStatusIncorrect = 8
    /\ CountIssue(issues[1].ASSIGNBACK, "Many incorrect documentation entries") = 1

\* prompting_detected.value is true: the boolean, or the text yes / true
PromptingValueTrue ==
    LET v == qa.behavioral_flags.prompting_detected.value IN
    \/ v.t = "true"
    \/ IsStr(v) /\ lower(strip(v.v)) \in {k_yes, k_true}

\* the examples or the timestamps of prompting_detected number two or more
TwoExamplesOrTimestamps ==
    LET pr == qa.behavioral_flags.prompting_detected IN
    \/ IsList(pr.examples) /\ Len(pr.examples.v) >= 2
    \/ IsList(pr.timestamps) /\ Len(pr.timestamps.v) >= 2

\* C2: when prompting_detected.value is true the decision holds exactly one
\* prompting issue: the ASSIGNBACK 'Major agent-led prompting detected' when
\* there are >= 2 examples or >= 2 timestamps, else the FLAGS 'Minor prompting
\* detected'; when the value is not true it holds neither.
C2_OnePromptingIssue ==
    issues # <<>> =>
        LET d == issues[1]
            nMajor == CountIssue(d.ASSIGNBACK, "Major agent-led prompting detected")
            nMinor == CountIssue(d.FLAGS, "Minor prompting detected")
        IN  /\ PromptingValueTrue /\ TwoExamplesOrTimestamps => nMajor = 1 /\ nMinor = 0
            /\ PromptingValueTrue /\ ~TwoExamplesOrTimestamps => nMajor = 0 /\ nMinor = 1
            /\ ~PromptingValueTrue => nMajor = 0 /\ nMinor = 0
            /\ \A b \in Buckets \ {"ASSIGNBACK"} :
                   CountIssue(d[b], "Major agent-led prompting detected") = 0
            /\ \A b \in Buckets \ {"FLAGS"} : CountIssue(d[b], "Minor prompting detected") = 0

\* a decision of a record whose prompting is major by its timestamps alone
C2_Witness ==
    /\ issues # <<>>
    /\ PromptingValueTrue
    /\ list_len(qa.behavioral_flags.prompting_detected.examples) = 1
    /\ list_len(qa.behavioral_flags.prompting_detected.timestamps) = 2
    /\ CountIssue(issues[1].ASSIGNBACK, "Major agent-led prompting detected") = 1

(***************************************************************************)
(* Properties of the QC score (compute_qc_score).                          *)
(***************************************************************************)
\* the sixteen dimension scores of a breakdown, added one by one
BreakdownSum(b) ==
    b["greetings"] + b["call_opening"] + b["language_preference"] + b["id_validation"]
    + b["disclaimer"] + b["politeness"] + b["empathy"] + b["communication_skills"]
    + b["probing"] + b["observations"] + b["call_closure"]
    + b["complete_mer_questions"] + b["correct_documentation"] + b["call_duration"]
    + b["rate_of_speech"] + b["visual_presentation"]

\* all eleven QC parameters are answered 'Yes'
AllParametersYes ==
    \A d \in QcDimSet :
        /\ IsDict(qc2.qc_parameters[d])
        /\ IsStr(qc2.qc_parameters[d].v)
        /\ qc2.qc_parameters[d].v.v = s_Yes

\* the items of the QA matrix that compute_ui_summary counts
Counted == {i \in 1..Len(qa.qa_matrix) : ~pp_excluded(qa.qa_matrix[i])}

\* the counted items whose status normalises to the given class
CountedAs(class) ==
    {i \in Counted : _normalize_status(qa.qa_matrix[i].status) = class}

\* every counted question was asked and is correct, and there is one at least
FullCompliance ==
    /\ Counted # {}
    /\ CountedAs(k_missing) = {}
    /\ CountedAs(k_correct) = Counted

\* C3: total_score is the sum of the sixteen breakdown scores; with all eleven
\* QC parameters 'Yes', questions asked and compliance both at 100%, a duration
\* of ten minutes or more and doctor_wpm = 140, it is 1600 and 'Good'.
C3_TotalIsSum ==
    qc_score # <<>> =>
        LET r == qc_score[1] IN
        /\ DOMAIN r.breakdown = ScoreDims
        /\ Cardinality(ScoreDims) = 16
        /\ r.total_score = BreakdownSum(r.breakdown)
        /\ (/\ AllParametersYes
            /\ FullCompliance
            /\ IsNum(duration_sec) /\ duration_sec.v[1] >= 600
            /\ qa.meta.doctor_wpm = PyNum(14000))
           => r.total_score = 1600 /\ r.category = "Good"

\* the score of a fully compliant record
C3_Witness ==
    /\ qc_score # <<>>
    /\ AllParametersYes
    /\ FullCompliance
    /\ IsNum(duration_sec) /\ duration_sec.v[1] >= 600
    /\ qa.meta.doctor_wpm = PyNum(14000)
    /\ qc_score[1].total_score = 1600

\* C4: the category bands the raw total with inclusive floors: >= 1500 'Good',
\* 1400..1499 'Above Average', 1300..1399 'Average', below 1300 'Poor'.
C4_CategoryBands ==
    qc_score # <<>> =>
        LET t == qc_score[1].total_score
            c == qc_score[1].category
        IN  /\ t >= 1500 => c = "Good"
            /\ 1400 <= t /\ t < 1500 => c = "Above Average"
            /\ 1300 <= t /\ t < 1400 => c = "Average"
            /\ t < 1300 => c = "Poor"

\* a score exactly on the floor of the top band
C4_Witness ==
    /\ qc_score # <<>>
    /\ qc_score[1].total_score = 1500
    /\ qc_score[1].category = "Good"

(***************************************************************************)
(* Properties of the compliance summary (compute_ui_summary).              *)
(***************************************************************************)
StatusClasses == {k_incorrect, k_missing, k_clubbed, k_paraphrased, k_correct}

\* the counted items whose status matches none of the five classes
CountedUnknown ==
    {i \in Counted : _normalize_status(qa.qa_matrix[i].status) \notin StatusClasses}

N(S) == Cardinality(S)

\* C5 as stated: a counted item of unmatched (or empty) status is counted in
\* total_questions but neither in questions_asked nor in any other counter.
C5_UnknownNotAsked ==
    summary # <<>> =>
        LET r == summary[1] IN
        /\ r.total_questions = N(Counted)
        /\ r.questions_asked = N(Counted) - N(CountedAs(k_missing)) - N(CountedUnknown)
        /\ r.questions_missed = N(CountedAs(k_missing))
        /\ r.incorrect_responses = N(CountedAs(k_incorrect))
        /\ r.paraphrased_responses = N(CountedAs(k_paraphrased))
        /\ r.clubbed_questions = N(CountedAs(k_clubbed))

\* C5 (amended): a counted item of unmatched (or empty) status is counted in
\* total_questions and, not being missing, in questions_asked, and in no other
\* counter: not in questions_missed, incorrect_responses, paraphrased_responses
\* or clubbed_questions, nor among the correct items behind the score.
C5_UnknownAskedOnly ==
    summary # <<>> =>
        LET r == summary[1] IN
        /\ r.total_questions = N(Counted)
        /\ r.questions_asked = N(Counted) - N(CountedAs(k_missing))
        /\ r.questions_missed = N(CountedAs(k_missing))
        /\ r.incorrect_responses = N(CountedAs(k_incorrect))
        /\ r.paraphrased_responses = N(CountedAs(k_paraphrased))
        /\ r.clubbed_questions = N(CountedAs(k_clubbed))
        /\ 2 * r.overall_compliance_score * N(Counted)
               <= 20000 * N(CountedAs(k_correct)) + N(Counted)

\* a summary of a matrix that holds a counted item of unmatched status
C5_Witness ==
    /\ summary # <<>>
    /\ CountedUnknown # {}
    /\ summary[1].questions_asked > N(CountedAs(k_correct)) + N(CountedAs(k_incorrect))
                                     + N(CountedAs(k_paraphrased)) + N(CountedAs(k_clubbed))

\* the exclusion as specified: the question id starts with 'PP.' in any letter
\* case and the expected response, trimmed and lowercased, is a sentinel
SpecExcluded(item) ==
    /\ startswith(lower(strip(str(item.question_id))), lower(k_PPdot))
    /\ lower(strip(or_empty(item.expected_response))) \in NaSentinels

SpecCounted == {i \in 1..Len(qa.qa_matrix) : ~SpecExcluded(qa.qa_matrix[i])}

\* C6: an item is left out of every counter iff its question_id starts with
\* 'PP.' compared case-insensitively and its expected_response, trimmed and
\* lowercased, is one of '', 'na', 'n/a', 'not applicable', 'null', 'none'.
C6_ExclusionCaseInsensitive ==
    summary # <<>> =>
        LET r == summary[1]
            as(class) == {i \in SpecCounted :
                            _normalize_status(qa.qa_matrix[i].status) = class}
        IN  /\ r.total_questions = N(SpecCounted)
            /\ r.questions_missed = N(as(k_missing))
            /\ r.questions_asked = N(SpecCounted) - N(as(k_missing))
            /\ r.incorrect_responses = N(as(k_incorrect))
            /\ r.paraphrased_responses = N(as(k_paraphrased))
            /\ r.clubbed_questions = N(as(k_clubbed))

\* the QA report without the i-th item of its matrix
WithoutItem(q, i) ==
    [q EXCEPT !.qa_matrix = SubSeq(q.qa_matrix, 1, i - 1)
                            \o SubSeq(q.qa_matrix, i + 1, Len(q.qa_matrix))]

\* C7: an item whose question_id starts with 'PP.' and whose expected_response
\* is an empty/NA sentinel contributes to no count: removing it changes neither
\* the summary nor the decision.
C7_ExcludedEverywhere ==
    (issues # <<>> /\ summary # <<>>) =>
        \A i \in 1..Len(qa.qa_matrix) :
            pp_excluded(qa.qa_matrix[i]) =>
                /\ compute_ui_summary(WithoutItem(qa, i)) = summary[1]
                /\ summarize_record(WithoutItem(qa, i), qc2) = issues[1]

\* C8: questions_asked = total_questions - questions_missed, and the incorrect,
\* paraphrased, clubbed and correct items together number at most
\* questions_asked.
C8_AskedIsTotalLessMissed ==
    summary # <<>> =>
        LET r == summary[1] IN
        /\ r.questions_asked = r.total_questions - r.questions_missed
        /\ r.incorrect_responses + r.paraphrased_responses + r.clubbed_questions
               + N(CountedAs(k_correct)) <= r.questions_asked

\* a summary with a missed question and an asked one
C8_Witness ==
    /\ summary # <<>>
    /\ summary[1].questions_missed >= 1
    /\ summary[1].questions_asked >= 1
    /\ summary[1].total_questions = 2

\* the status as typed, lowercased
StatusText(item) == lower(or_empty(item.status))

\* C9: the status is classified by case-insensitive substring match, the first
\* of incorrect > missing > clubbed > paraphrased > correct that occurs in it
\* winning: a status containing 'incorrect' is incorrect, never correct.
C9_Precedence ==
    summary # <<>> =>
        \A i \in 1..Len(qa.qa_matrix) :
            LET t == StatusText(qa.qa_matrix[i])
                n == _normalize_status(qa.qa_matrix[i].status)
                has(k) == \E a \in 1..Len(t) : \E b \in a..Len(t) : SubSeq(t, a, b) = k
            IN  /\ has(k_incorrect) => n = k_incorrect
                /\ ~has(k_incorrect) /\ has(k_missing) => n = k_missing
                /\ ~has(k_incorrect) /\ ~has(k_missing) /\ has(k_clubbed) => n = k_clubbed
                /\ ~has(k_incorrect) /\ ~has(k_missing) /\ ~has(k_clubbed)
                       /\ has(k_paraphrased) => n = k_paraphrased
                /\ ~has(k_incorrect) /\ ~has(k_missing) /\ ~has(k_clubbed)
                       /\ ~has(k_paraphrased) /\ has(k_correct) => n = k_correct
                /\ n \in StatusClasses =>
                       \E k \in StatusClasses : has(k)

\* a summary over a status that names 'missing' before 'incorrect'
C9_Witness ==
    /\ summary # <<>>
    /\ \E i \in 1..Len(qa.qa_matrix) :
           /\ qa.qa_matrix[i].status = PyStr(s_MissingThenIncorrect)
           /\ ~pp_excluded(qa.qa_matrix[i])
    /\ summary[1].incorrect_responses = 1
    /\ summary[1].questions_missed = 0

\* C10 as stated: with no counted item the summary has total_questions = 0 and
\* overall_compliance_score = 0.0; otherwise the score is correct / total * 100.
C10_ScoreExact ==
    summary # <<>> =>
        LET r == summary[1] IN
        IF Counted = {}
        THEN r.total_questions = 0 /\ r.overall_compliance_score = 0
        ELSE r.overall_compliance_score * r.total_questions
                 = 10000 * N(CountedAs(k_correct))

\* C10 (amended): with no counted item the summary has total_questions = 0 and
\* overall_compliance_score = 0.0; otherwise the score is correct / total * 100
\* rounded to two decimals.
C10_ScoreRounded ==
    summary # <<>> =>
        LET r == summary[1]
            exact == 10000 * N(CountedAs(k_correct))
            got == r.overall_compliance_score * r.total_questions
        IN  IF Counted = {}
            THEN r.total_questions = 0 /\ r.overall_compliance_score = 0
            ELSE /\ r.total_questions = N(Counted)
                 /\ 2 * (got - exact) <= r.total_questions
                 /\ 2 * (exact - got) <= r.total_questions

\* a summary of a matrix whose only items are excluded personal particulars
C10_Witness ==
    /\ summary # <<>>
    /\ Len(qa.qa_matrix) = 2
    /\ Counted = {}
    /\ summary[1].total_questions = 0
    /\ summary[1].overall_compliance_score = 0

(***************************************************************************)
(* Properties of the rate-of-speech score (compute_qc_score, ros_score).   *)
(***************************************************************************)
\* the rate of speech of the report is w words per minute or more / or less
WpmAtLeast(n) == IsNum(qa.meta.doctor_wpm) /\ qa.meta.doctor_wpm.v[1] >= 100 * n
WpmAtMost(n) == IsNum(qa.meta.doctor_wpm) /\ qa.meta.doctor_wpm.v[1] <= 100 * n
WpmBetween(a, b) == WpmAtLeast(a) /\ WpmAtMost(b)

\* C11: the rate_of_speech score of compute_qc_score is 50 when
\* meta.doctor_wpm is unavailable or exactly 0, 100 for 120..160, 70 for
\* 100..119 and 161..180, 30 for 80..99 and 181..200, and 0 below 80
\* (0 apart) or above 200.
C11_RateOfSpeechBands ==
    qc_score # <<>> =>
        LET w == qa.meta.doctor_wpm
            s == qc_score[1].breakdown["rate_of_speech"]
        IN  /\ (~IsNum(w) \/ w = PyNum(0)) => s = 50
            /\ WpmBetween(120, 160) => s = 100
            /\ (WpmBetween(100, 119) \/ WpmBetween(161, 180)) => s = 70
            /\ (WpmBetween(80, 99) \/ WpmBetween(181, 200)) => s = 30
            /\ ((IsNum(w) /\ w # PyNum(0) /\ ~WpmAtLeast(80)) \/ (IsNum(w) /\ ~WpmAtMost(200)))
                   => s = 0

\* the score was computed at both ends of the ideal band's neighbours:
\* here for 119 words per minute, scored 70
C11_Witness ==
    /\ qc_score # <<>>
    /\ qa.meta.doctor_wpm = PyNum(11900)
    /\ qc_score[1].breakdown["rate_of_speech"] = 70

(***************************************************************************)
(* Properties of the height and weight rules (summarize_record).           *)
(***************************************************************************)
\* the number a height or weight value of the report denotes, in tenths
Denoted(raw) == (CHOOSE m \in MeasureInputs : m.raw = raw).number

\* the issues of a bucket apart from the height and weight entries
WithoutMeasureIssues(list) ==
    SelectSeq(list, LAMBDA e : e.issue \notin {"Height out of range", "Weight out of range"})

\* the record's reports are of the expected types, whatever the measures
TypedApartFromMeasures ==
    /\ \A i \in 1..Len(qa.qa_matrix) : is_item(qa.qa_matrix[i])
    /\ is_flag(qa.behavioral_flags.prompting_detected)
    /\ is_flag(qa.behavioral_flags.customer_hesitation)
    /\ IsDict(qc2.qc_parameters["call_opening"])

\* C16: FLAGS contains 'Height out of range' exactly when height_cm denotes
\* a number below 130 or above 210, and 'Weight out of range' exactly when
\* weight_kg denotes a number below 35 or above 150; a missing or
\* non-numeric value fires nothing, raises nothing, and every other rule
\* gives what it gives without the two values.
C16_MeasureRules ==
    /\ TypedApartFromMeasures => "summarize_record" \notin raised
    /\ (issues # <<>> /\ TypedApartFromMeasures
          /\ qa.data_validation.height_cm \in MeasureValues
          /\ qa.data_validation.weight_kg \in MeasureValues) =>
        LET h == Denoted(qa.data_validation.height_cm)
            w == Denoted(qa.data_validation.weight_kg)
            F == issues[1].FLAGS
            bare == summarize_record(
                        [qa EXCEPT !.data_validation = [height_cm |-> PyNone,
                                                        weight_kg |-> PyNone]], qc2)
        IN  /\ CountIssue(F, "Height out of range")
                 = IF h # <<>> /\ (h[1] < 1300 \/ h[1] > 2100) THEN 1 ELSE 0
            /\ CountIssue(F, "Weight out of range")
                 = IF w # <<>> /\ (w[1] < 350 \/ w[1] > 1500) THEN 1 ELSE 0
            /\ WithoutMeasureIssues(F) = bare.FLAGS
            /\ \A b \in Buckets \ {"FLAGS"} : issues[1][b] = bare[b]

\* the decision was built for a height of exactly 130 and a weight that is
\* not a number: neither rule fired, the prompting issue is still there
C16_Witness ==
    /\ issues # <<>>
    /\ qa.data_validation.height_cm = PyNum(1300)
    /\ qa.data_validation.weight_kg = PyStr(<<"t","a","l","l">>)
    /\ CountIssue(issues[1].FLAGS, "Height out of range") = 0
    /\ CountIssue(issues[1].FLAGS, "Weight out of range") = 0
    /\ CountIssue(issues[1].FLAGS, "Minor prompting detected") = 1

(***************************************************************************)
(* Properties of the engine on malformed reports.                          *)
(***************************************************************************)
\* C17: compute_qc_score and summarize_record never raise on a malformed
\* report (a dimension mapped to null, a boolean value, call_opening or
\* prompting_detected given as a plain string): a result is still returned.
C17_NeverRaises ==
    /\ "compute_qc_score" \notin raised
    /\ "summarize_record" \notin raised

(***************************************************************************)
(* Properties of the timestamp utility.                                    *)
(***************************************************************************)
\* the offset is a whole number s of seconds in [0, 359999]
WholeSeconds == total_seconds % 10 = 0 /\ 0 <= total_seconds /\ total_seconds <= 3599990

\* the timestamp is the offset as seconds_to_mmss / seconds_to_timestamp write it
Formatted ==
    timestamp \in {PyStr(seconds_to_mmss(total_seconds)),
                   PyStr(seconds_to_timestamp(total_seconds))}

\* the text is digits, a colon and two digits, without a leading zero in
\* the minutes unless the minutes are 0
PaddedSecondsBareMinutes(s) ==
    /\ Len(s) >= 4
    /\ s[Len(s) - 2] = ":"
    /\ IsDigits(SubSeq(s, Len(s) - 1, Len(s)))
    /\ IsDigits(SubSeq(s, 1, Len(s) - 3))
    /\ (Len(s) > 4 => s[1] # "0")

\* C12: for every whole s in [0, 359999], parsing the formatted s gives s
\* back, and the formatted s has its seconds zero-padded to two digits and
\* its minutes unpadded.
C12_RoundTrip ==
    (WholeSeconds /\ Formatted) =>
        /\ PaddedSecondsBareMinutes(timestamp.v)
        /\ parsed # <<>> => parsed[1] = PyNum(total_seconds \div 10)

\* 65 seconds were written '1:05' and parsed back to 65
C12_Witness ==
    /\ total_seconds = 650
    /\ timestamp = PyStr(<<"1",":","0","5">>)
    /\ parsed = <<PyNum(65)>>

(***************************************************************************)
(* Properties of the multi-call merge (merge_transcripts).                 *)
(***************************************************************************)
\* the offset in seconds a segment's timestamp denotes, if it is two
\* colon-separated integer fields
Offsets ==
    { [raw |-> PyStr(t_000), seconds |-> <<0>>],
      [raw |-> PyStr(t_005), seconds |-> <<5>>],
      [raw |-> PyStr(t_030), seconds |-> <<30>>],
      [raw |-> PyStr(t_100), seconds |-> <<60>>],
      [raw |-> PyStr(t_130), seconds |-> <<90>>],
      [raw |-> PyStr(t_1005), seconds |-> <<605>>],
      [raw |-> PyStr(t_padded), seconds |-> <<40>>],
      [raw |-> PyStr(t_hms), seconds |-> <<>>],
      [raw |-> PyStr(t_plain), seconds |-> <<>>],
      [raw |-> PyStr(t_words), seconds |-> <<>>],
      [raw |-> PyStr(t_nosec), seconds |-> <<>>],
      [raw |-> PyStr(t_frac), seconds |-> <<>>],
      [raw |-> PyStr(<<>>), seconds |-> <<>>],
      [raw |-> PyNone, seconds |-> <<>>] }

OffsetOf(raw) == (CHOOSE o \in Offsets : o.raw = raw).seconds

Parseable(segment) ==
    OffsetOf(segment.start_timestamp) # <<>> /\ OffsetOf(segment.end_timestamp) # <<>>

RECURSIVE SumTo(_, _)
\* f[1] + ... + f[n]
SumTo(f, n) == IF n = 0 THEN 0 ELSE SumTo(f, n - 1) + f[n]

\* the segments the calls before call i contribute / the offset O_i of call
\* i, in tenths of a second
SegmentsBefore(i) == SumTo([c \in 1..Len(transcripts) |-> Len(transcripts[c])], i - 1)
OffsetBefore(i) == SumTo(call_durations, i - 1)

\* one duration per call
OnePerCall == Len(transcripts) = Len(call_durations)

\* C13: a timestamp that is not two colon-separated integer fields parses
\* to null and its segment is left out by every consumer: no segment with
\* an unparseable timestamp is in the merged transcript (at offset + 0).
C13_UnparseableExcluded ==
    (merged # <<>> /\ OnePerCall) =>
        Len(merged[1])
          = SumTo([c \in 1..Len(transcripts) |->
                      Len(SelectSeq(transcripts[c], Parseable))], Len(transcripts))

\* C15: merge_transcripts shifts every segment of call i by O_i, the sum
\* of the durations of calls 1..i-1 (in the whole seconds a timestamp
\* holds), tags it call_index = i, prefixes its segment_id with the call
\* index so that ids of different calls differ, and keeps the number and
\* the order of the segments.
C15_ShiftTagOrder ==
    (merged # <<>> /\ OnePerCall) =>
        LET m == merged[1] IN
        /\ Len(m) = SegmentsBefore(Len(transcripts) + 1)
        /\ \A i \in 1..Len(transcripts) : \A k \in 1..Len(transcripts[i]) :
             LET src == transcripts[i][k]
                 out == m[SegmentsBefore(i) + k]
             IN  /\ out.call_index = i
                 /\ out.speaker = src.speaker
                 /\ out.segment_id.v = k_call \o digits_of(i) \o <<"_">> \o src.segment_id.v
                 /\ Parseable(src) =>
                      /\ parse_mmss_to_seconds(out.start_timestamp)
                           = PyNum(OffsetOf(src.start_timestamp)[1]
                                   + OffsetBefore(i) \div 10)
                      /\ parse_mmss_to_seconds(out.end_timestamp)
                           = PyNum(OffsetOf(src.end_timestamp)[1]
                                   + OffsetBefore(i) \div 10)
        /\ \A a, b \in 1..Len(m) :
             m[a].call_index # m[b].call_index => m[a].segment_id # m[b].segment_id

\* durations 300 and 200: the call-2 segment at 1:00 is at 6:00
C15_Witness ==
    /\ merged # <<>>
    /\ call_durations = <<3000, 2000>>
    /\ transcripts[2] # <<>>
    /\ transcripts[2][1].start_timestamp = PyStr(t_100)
    /\ merged[1][Len(transcripts[1]) + 1].start_timestamp = PyStr(<<"6",":","0","0">>)
    /\ merged[1][Len(transcripts[1]) + 1].call_index = 2

(***************************************************************************)
(* Properties of the speaker distribution (compute_speaker_distribution).  *)
(***************************************************************************)
\* the seconds [t, t+1) that some segment with two parseable timestamps,
\* end after start, covers
CoveredSeconds ==
    {t \in 0..700 :
        \E k \in 1..Len(transcript) :
            /\ Parseable(transcript[k])
            /\ OffsetOf(transcript[k].start_timestamp)[1] <= t
            /\ t < OffsetOf(transcript[k].end_timestamp)[1]}

\* C14: with a total duration supplied, dead_air_seconds is max(0,
\* total_duration - length of the union of the valid segment intervals),
\* the total duration itself when no segment is valid; it is 0 when no
\* duration is supplied.
C14_DeadAir ==
    distribution # <<>> =>
        LET union == 10 * Cardinality(CoveredSeconds)
            dead == distribution[1].dead_air_seconds
        IN  IF IsNum(total_duration)
            THEN dead = IF total_duration.v[1] - union > 0
                        THEN total_duration.v[1] - union ELSE 0
            ELSE dead = 0

(***************************************************************************)
(* Properties of the chunk pool (_transcribe_one, transcribe_in_parallel). *)
(***************************************************************************)
\* the returned list has one result per chunk, in path order: the chunk's
\* own transcript or the empty result
OnePerChunkInOrder ==
    /\ Len(pool_returned[1]) = Len(chunk_fate)
    /\ \A i \in DOMAIN chunk_fate :
          pool_returned[1][i] \in {OracleResult(i), EmptyResult}
    /\ \A i \in DOMAIN chunk_fate :
          chunk_fate[i] # "ok" => pool_returned[1][i] = EmptyResult

\* C18: transcribe_in_parallel returns one result per chunk path, in path
\* order whatever the order the workers finish in; a chunk that times out
\* or raises gives {'segments': []} at its position and does not keep the
\* results of the other chunks from being returned; at most min(chunk
\* count, 8) chunks are transcribed at once.
C18_OneResultPerChunk ==
    /\ [](Cardinality(Running) <= max_workers(Len(chunk_state)))
    /\ [](pool_returned # <<>> => OnePerChunkInOrder)
    /\ <>(pool_returned # <<>>)

\* C19: the oracle call is bounded by the per-chunk timeout: when it never
\* completes, _transcribe_one still returns, with the empty result, once
\* the timeout has elapsed.
TimedOut(i) ==
    IF i \in DOMAIN chunk_state THEN chunk_state[i] = "draining" ELSE FALSE

ReturnedEmpty(i) ==
    IF i \in DOMAIN chunk_state
    THEN chunk_state[i] = "done" /\ chunk_result[i] = <<EmptyResult>>
    ELSE FALSE

C19_TimeoutBoundsCall ==
    \A i \in 1..MaxChunks : TimedOut(i) ~> ReturnedEmpty(i)

(***************************************************************************)
(* Properties of a record (process_multi_call_record).                     *)
(***************************************************************************)
\* C20: the merge starts only after the transcription of every call of the
\* record has finished or failed, and it receives exactly one transcript,
\* real or empty, per call.
C20_OneTranscriptPerCall ==
    merged_transcript # <<>> =>
        /\ in_flight = {}
        /\ call_index = Len(media_files) + 1
        /\ Len(record_transcripts) = Len(media_files)

(***************************************************************************)
(* Properties of the range of the QC score (compute_qc_score).             *)
(***************************************************************************)
BreakdownValues == {0, 20, 30, 40, 50, 60, 70, 80, 100}

\* no QA item, no QC answer, no rate of speech, no duration
EmptyReports ==
    /\ qa.qa_matrix = <<>>
    /\ qa.meta.doctor_wpm = PyNone
    /\ \A d \in QcDimSet : qc2.qc_parameters[d] = PyAbsent
    /\ duration_sec = PyNone

\* C25: whenever compute_qc_score returns, total_score is a multiple of 10
\* between 170 and 1600, max_score is 1600, every breakdown value is one of
\* 0, 20, 30, 40, 50, 60, 70, 80, 100 and visual_presentation is 100; empty
\* reports with an unknown duration score 220 and 'Poor'.
C25_ScoreRange ==
    qc_score # <<>> =>
        LET r == qc_score[1] IN
        /\ 170 <= r.total_score /\ r.total_score <= 1600
        /\ r.total_score % 10 = 0
        /\ r.max_score = 1600
        /\ \A d \in DOMAIN r.breakdown : r.breakdown[d] \in BreakdownValues
        /\ r.breakdown["visual_presentation"] = 100
        /\ EmptyReports => r.total_score = 220 /\ r.category = "Poor"

\* the score of empty reports was computed
C25_Witness ==
    /\ qc_score # <<>>
    /\ EmptyReports
    /\ qc_score[1].total_score = 220

\* C26: every available non-zero rate of speech from 80 to 200 words per
\* minute, fractional values included, scores at least 30, and every one
\* from 100 to 180 scores at least 70.
C26_NoGapBetweenBands ==
    qc_score # <<>> =>
        LET s == qc_score[1].breakdown["rate_of_speech"] IN
        /\ (WpmBetween(80, 200) /\ qa.meta.doctor_wpm # PyNum(0)) => s >= 30
        /\ WpmBetween(100, 180) => s >= 70

(***************************************************************************)
(* The decision engine against the QA normalizer.                          *)
(***************************************************************************)
\* no item of the QA matrix is an excluded personal particular
NoneExcluded == \A i \in 1..Len(qa.qa_matrix) : ~pp_excluded(qa.qa_matrix[i])

\* C27: for a QA matrix with no PP-excluded item, the numbers of items that
\* summarize_record takes as Incorrect, Missing and Clubbed are
\* compute_ui_summary's incorrect_responses, questions_missed and
\* clubbed_questions.
C27_SameClassification ==
    (summary # <<>> /\ issues # <<>> /\ NoneExcluded) =>
        /\ Len(incorrect_items(qa.qa_matrix)) = summary[1].incorrect_responses
        /\ Len(missing_items(qa.qa_matrix)) = summary[1].questions_missed
        /\ clubbed_count(qa.qa_matrix) = summary[1].clubbed_questions

(***************************************************************************)
(* Audio-only records in the decision rules.                               *)
(***************************************************************************)
\* the report carries the video analysis of an audio-only record
AudioOnly ==
    qa.video_analysis =
        [attire_check |-> PyStr(s_NA), privacy_maintained |-> PyStr(s_NA),
         visibility_status |-> PyStr(s_NA)]

\* C28: for an audio-only record, whose video analysis is 'NA' in every
\* field, summarize_record emits none of 'Doctor not wearing apron',
\* 'Privacy breach in video' and 'Not both participants visible'.
C28_NoVideoIssueForAudioOnly ==
    (issues # <<>> /\ AudioOnly) =>
        /\ CountIssue(issues[1].ASSIGNBACK, "Doctor not wearing apron") = 0
        /\ CountIssue(issues[1].FLAGS, "Privacy breach in video") = 0
        /\ CountIssue(issues[1].TECH_ISSUES, "Not both participants visible") = 0

(***************************************************************************)
(* Properties of scan_records.                                             *)
(***************************************************************************)
\* the records whose calls include the file
RecordsOf(f) ==
    {rid \in DOMAIN records[1] :
        \E i \in 1..Len(records[1][rid].calls) : records[1][rid].calls[i].name = f}

\* C29: scan_records attaches every media file to at most one record, also
\* when one record id is a prefix of another, and numbers the calls of each
\* record 1..n in ascending order of file name.
C29_OneRecordPerFile ==
    records # <<>> =>
        /\ \A f \in files : Cardinality(RecordsOf(f)) <= 1
        /\ \A rid \in DOMAIN records[1] :
              LET calls == records[1][rid].calls IN
              /\ \A i \in 1..Len(calls) : calls[i].index = i
              /\ \A i, j \in 1..Len(calls) :
                    i < j => str_less(calls[i].name, calls[j].name)

\* the calls handled so far
Handled == 1..(call_index - 1)

\* C30: after each media file is handled, whether its transcription
\* succeeded or raised, transcripts and call_durations have the same length,
\* entry i belonging to call i, and a call whose transcription failed has
\* the empty transcript and the duration 0.
C30_ListsInStep ==
    in_flight = {} =>
        /\ Len(record_transcripts) = Len(record_durations)
        /\ Len(record_transcripts) = Cardinality(Handled)
        /\ \A i \in Handled :
              IF media_files[i].response.json = "dict"
              THEN /\ record_transcripts[i] = media_files[i].response
                   /\ record_durations[i] = media_files[i].duration
              ELSE /\ record_transcripts[i] = Transcript(<<>>)
                   /\ record_durations[i] = 0

(***************************************************************************)
(* Properties of the service: process_record threads, decision_builder,    *)
(* s3_uploader and the endpoints that report on records.                   *)
(***************************************************************************)
\* C21: at any time at most one process_record job is in flight for a
\* given record id: no two threads started by POST
\* /api/records/<rid>/process run at once for the same rid.
C21_OneJobPerRecord ==
    jobs # <<>> => \A rid \in RequestIds : InFlight(rid) <= 1

\* the thread j finishes its run of medb.py in this step, and no other
\* thread is in flight for its record
MedbReturns(j) ==
    /\ j.pc = "medb" /\ jobs'[j] = jobs[j] - 1
    /\ InFlight(j.rid) = 1

\* C22: a process_record job with force = false that runs alone on a
\* record that already has its derived artifacts leaves them as they are
\* and does not call the oracle again.
C22_ReprocessIdempotent ==
    [][\A j \in DOMAIN jobs :
          (MedbReturns(j) /\ ~j.force /\ artifacts[j.rid] # <<>>)
              => (artifacts' = artifacts /\ oracle_calls' = oracle_calls)]_vars

\* C23 as stated: after any sequence of scan, process, decision building
\* and upload every source file of every record holds its initial bytes.
C23_SourcesUntouched == \A rid \in DOMAIN source : source[rid] = k_bytes

\* C23: a step changes the content of a source file of a record only by
\* overwriting it with its pointer, and such a step is the uploader's: it
\* is no step of a process_record thread, of decision building or of an
\* endpoint.
C23_OnlyUploadReplaces ==
    [][\A rid \in DOMAIN source :
          source'[rid] # source[rid] =>
              /\ source[rid] = k_bytes /\ source'[rid] = k_pointer
              /\ UNCHANGED <<processed_dir, artifacts, oracle_calls, final_decision,
                             jobs, started, last_response>>]_vars

\* a record was processed twice, its decision was built, and the uploader
\* has replaced its source files, while the source files
\* of another record still hold their bytes
C23_Witness ==
    /\ source # <<>>
    /\ \E rid \in DOMAIN source :
          /\ source[rid] = k_pointer
          /\ artifacts[rid] # <<>>
          /\ artifacts[rid][1].run = 2
          /\ final_decision[rid] # <<>>
    /\ \E rid \in DOMAIN source : source[rid] = k_bytes

\* the id names no record, or a record without derived reports
Unprocessed(rid) == IF rid \in DOMAIN artifacts THEN artifacts[rid] = <<>> ELSE TRUE

\* C24: the endpoints that report on records (dashboard, details, final
\* decision) answer for a record that has not been processed with the
\* not_processed error, and with no triage category and no QC score.
C24_NotProcessedIsDistinct ==
    (last_response # <<>> /\ last_response.endpoint # "process") =>
        \A rid \in DOMAIN last_response.rows :
            Unprocessed(rid) =>
                /\ last_response.rows[rid].error = "not_processed"
                /\ last_response.rows[rid].category = ""
                /\ last_response.rows[rid].qcScore = <<>>

============================================================================
